---- MODULE Spec2Model ----
(***************************************************************************)
(* Model of the fan-out task executor of multi-git                         *)
(* (internal/repository/executor.go, manager.go) and of the Result /       *)
(* Summary model it aggregates into.                                       *)
(*                                                                         *)
(* One run of Manager.Execute / ExecuteSequential / ExecuteParallel is     *)
(* modelled statement by statement.  Goroutines (the main goroutine, the   *)
(* workers, the closer goroutine) interleave at every channel operation,   *)
(* context check, Task call and callback.  The Task is opaque: it is       *)
(* called, runs for an arbitrary time and returns one of a small set of    *)
(* Results.  The context can be cancelled at any moment of the run.        *)
(***************************************************************************)
EXTENDS Integers, Sequences, FiniteSets, TLC

\* ---------------------------------------------------------------- bounds
MaxRepos == 2          \* repository lists of length 0..MaxRepos
MaxParallel == 1       \* configured parallel_workers in 0..MaxParallel
MaxExecParallel == 2   \* exec: --parallel in 0..MaxExecParallel
MaxPushParallel == 1   \* push: --parallel in 0..MaxPushParallel
MaxCloneParallel == 2
MaxCheckoutParallel == 1  \* clone: --parallel in 0..MaxCloneParallel
MaxTimedRepos == 3     \* timed runs: repository lists of length 0..MaxTimedRepos
MaxTimedParallel == 2  \* timed runs: parallel_workers in 0..MaxTimedParallel
MaxTaskTime == 2       \* timed runs: the Task takes 1..MaxTaskTime time units
MaxNegative == 2       \* mode selection: parallel_workers in -MaxNegative..MaxSelect
MaxSelect == 3
MaxResults == 3        \* Summary construction: Result lists of length 0..MaxResults
MaxDuration == 1       \* Summary construction: Result durations 0..MaxDuration

\* ------------------------------------------------------ program constants
DefaultWorkers == 3

VARIABLES
    config,        \* [Repositories, ParallelWorkers]: m.config
    ctxDone,       \* the context passed to Execute* has been cancelled
    onProgress,    \* TRUE iff the onProgress argument is non-nil
    pc,            \* position of the calling goroutine
    i,             \* loop index of the calling goroutine
    result,        \* local `result` of ExecuteSequential
    results,       \* local `results` slice
    summary,       \* the returned *Summary (NoSummary before return)
    numWorkers,    \* local numWorkers of ExecuteParallel
    jobs,          \* buffered channel jobs: [buf, cap, closed]
    resultsChan,   \* buffered channel resultsChan: [buf, cap, closed]
    wg,            \* sync.WaitGroup counter
    workers,       \* worker goroutines: sequence of [pc, repo, result]
    closer,        \* the goroutine running wg.Wait(); close(resultsChan)
    panicked,      \* a goroutine sent on a closed channel
    flags,         \* command-line flags of the running command
    hasFailed,     \* runExec: the atomic.Bool shared by the exec Tasks
    exitCode,      \* process exit status (NotExited while running)
    env,           \* what outlives the process: the repositories on disk
    hist           \* history of the run (observation only)

vars == <<config, ctxDone, onProgress, pc, i, result, results, summary,
          numWorkers, jobs, resultsChan, wg, workers, closer, panicked,
          flags, hasFailed, exitCode, env, hist>>
cmdVars == <<flags, hasFailed, exitCode, env>>

\* ------------------------------------------------------------ data model
NoResult == [RepoName |-> 0, Success |-> FALSE, Error |-> "none",
             Duration |-> 0, Message |-> ""]
NoSummary == [TotalCount |-> -1, SuccessCount |-> -1, FailedCount |-> -1,
              SkippedCount |-> -1, Results |-> <<>>]
NoChan == [buf |-> <<>>, cap |-> 0, closed |-> FALSE]

Canceled == "context canceled"
\* outside the checkout command nothing of the disk is modelled
NoEnv == [branch |-> <<>>, file |-> 0, run |-> 0]
NotExited == -1
NoFlags == [execFailFast |-> FALSE, execParallel |-> 0, execDryRun |-> FALSE]
SkippedDueToFailure == "skipped due to previous failure"

\* mutant: the message is not looked at
IsSkippedAnyMessage(r) == r.Success /\ r.Duration = 0
\* Result.IsSkipped
IsSkipped(r) == r.Success /\ r.Duration = 0 /\ r.Message # ""

\* the counting loop of NewSummary over results[1..k]
RECURSIVE SummaryCounts(_, _)
SummaryCounts(rs, k) ==
    IF k = 0 THEN [SuccessCount |-> 0, FailedCount |-> 0, SkippedCount |-> 0]
    ELSE LET s == SummaryCounts(rs, k - 1)
             r == rs[k]
         IN IF r.Success
            THEN IF IsSkipped(r)
                 THEN [s EXCEPT !.SkippedCount = @ + 1]
                 ELSE [s EXCEPT !.SuccessCount = @ + 1]
            ELSE [s EXCEPT !.FailedCount = @ + 1]

\* NewSummary
NewSummary(rs) ==
    LET c == SummaryCounts(rs, Len(rs))
    IN [TotalCount   |-> Len(rs),
        SuccessCount |-> c.SuccessCount,
        FailedCount  |-> c.FailedCount,
        SkippedCount |-> c.SkippedCount,
        Results      |-> rs]

IsFailed(r) == ~r.Success
IsSuccessful(r) == r.Success /\ ~IsSkipped(r)

\* Summary.FailedResults
FailedResults(s) == SelectSeq(s.Results, IsFailed)
\* mutant: skipped Results are returned among the successful ones
SuccessfulResultsWithSkipped(s) == SelectSeq(s.Results, LAMBDA r : r.Success)
\* Summary.SuccessfulResults
SuccessfulResults(s) == SelectSeq(s.Results, IsSuccessful)
\* Summary.SkippedResults
SkippedResults(s) == SelectSeq(s.Results, IsSkipped)
\* mutant: anything that is not a plain success counts as a failure
HasFailuresNotAllSuccess(s) == s.SuccessCount < s.TotalCount
\* Summary.HasFailures
HasFailures(s) == s.FailedCount > 0
\* if summary.HasFailures() { os.Exit(1) }, else the command returns
ExitStatus(s) == IF HasFailures(s) THEN 1 ELSE 0

\* mutant: the configured value is used as it is
ParallelWorkersRaw(cfg) == cfg.ParallelWorkers
\* Manager.ParallelWorkers
ParallelWorkers(cfg) ==
    IF cfg.ParallelWorkers <= 0 THEN DefaultWorkers ELSE cfg.ParallelWorkers

\* Manager.RepositoryCount
RepositoryCount(cfg) == Len(cfg.Repositories)

\* The Results a Task may return for a repository: every Task of the
\* commands starts from Result{RepoName: repo.Name} and returns a success,
\* a skip (success, zero duration, message) or a failure.
TaskResults(repo) ==
    { [RepoName |-> repo, Success |-> TRUE,  Error |-> "nil",
       Duration |-> 1, Message |-> ""],
      [RepoName |-> repo, Success |-> TRUE,  Error |-> "nil",
       Duration |-> 0, Message |-> "skipped"],
      [RepoName |-> repo, Success |-> FALSE, Error |-> "task failed",
       Duration |-> 1, Message |-> ""] }

\* mutant: the cancellation is never observed
CtxErrNever(done) == "nil"
\* ctx.Err(): non-nil once the context is cancelled
CtxErr(done) == IF done THEN Canceled ELSE "nil"

\* mutant: the cancelled Result is built without the repository name
CancelledResultUnnamed(repo, done) ==
    [RepoName |-> 0, Success |-> FALSE, Error |-> CtxErr(done),
     Duration |-> 0, Message |-> ""]
\* mutant: the cancelled Result has the shape of a skip
CancelledResultAsSkip(repo, done) ==
    [RepoName |-> repo, Success |-> TRUE, Error |-> CtxErr(done),
     Duration |-> 0, Message |-> "cancelled"]
\* The Result a worker builds when ctx.Done() is ready at the select
CancelledResult(repo, done) ==
    [RepoName |-> repo, Success |-> FALSE, Error |-> CtxErr(done),
     Duration |-> 0, Message |-> ""]

\* mutant: the worker count is not clamped to the repository count
NumWorkersUnclamped(cfg) == ParallelWorkers(cfg)
\* numWorkers := m.ParallelWorkers(); if numWorkers > numRepos {...}
NumWorkers(cfg) ==
    IF ParallelWorkers(cfg) > RepositoryCount(cfg)
    THEN RepositoryCount(cfg) ELSE ParallelWorkers(cfg)

\* make(chan T, n)
MakeChan(n) == [buf |-> <<>>, cap |-> n, closed |-> FALSE]
\* a send can proceed (a send on a closed channel proceeds, to a panic)
CanSend(ch) == ch.closed \/ Len(ch.buf) < ch.cap
\* a receive can proceed
CanRecv(ch) == Len(ch.buf) > 0
\* mutant: the newest value is put at the head of the buffer
ChanSendFront(ch, v) == [ch EXCEPT !.buf = <<v>> \o @]
ChanSend(ch, v) == [ch EXCEPT !.buf = Append(@, v)]
\* mutant: a receive leaves the value in the channel
ChanRecvKeep(ch) == ch
ChanRecv(ch) == [ch EXCEPT !.buf = Tail(@)]
ChanClose(ch) == [ch EXCEPT !.closed = TRUE]
\* mutant: the range loop ends as soon as the channel is closed
RangeEndsOnClose(ch) == ch.closed
\* `for v := range ch` ends when the channel is closed and drained
RangeEnds(ch) == ch.closed /\ Len(ch.buf) = 0

\* ------------------------------------------------------------- history
Repos == 1..MaxRepos
InitHist ==
    [mode       |-> "none",               \* which Execute* body ran
     startDone  |-> FALSE,  \* the context was already cancelled at the call
     invoked    |-> [r \in Repos |-> 0],  \* Task calls per repository
     running    |-> {},                   \* repositories whose Task runs
     returned   |-> [r \in Repos |-> NoResult], \* what the Task returned
     dequeued   |-> [r \in Repos |-> 0],  \* receives from jobs per repository
     lateDeq    |-> {},    \* repositories dequeued with the context done
     progress   |-> [r \in Repos |-> 0],  \* onProgress calls per repository
     forwarded  |-> [r \in Repos |-> 0],  \* sends to the sink per repository
     earlyProg  |-> {},    \* onProgress ran before the Result was forwarded
     cancelK    |-> 0,     \* Sequential: iteration the cancel came before
     interrupted |-> FALSE, \* a Task was running when the cancel came
     ranOp      |-> {},    \* exec: repositories whose real operation ran
     effect     |-> {},    \* repositories the external operation ran on
     present    |-> {},    \* repositories found on disk when their Task ran
     switched   |-> {},    \* push: repositories whose checked-out branch
                           \* the Task changed
     answer     |-> [read |-> FALSE, text |-> <<>>, eof |-> FALSE],
                           \* push: what the confirmation prompt read
     clock      |-> 0,     \* timed runs: time elapsed since the call
     started    |-> [r \in Repos |-> 0]]  \* timed runs: start of the Task

\* ------------------------------------------------------------------ Init
Init ==
    /\ \E n \in 0..MaxRepos, p \in 0..MaxParallel :
          config = [Repositories |-> [k \in 1..n |-> k], ParallelWorkers |-> p]
    /\ ctxDone \in BOOLEAN
    /\ onProgress \in BOOLEAN
    /\ pc = "idle"
    /\ i = 0
    /\ result = NoResult
    /\ results = <<>>
    /\ summary = NoSummary
    /\ numWorkers = 0
    /\ jobs = NoChan
    /\ resultsChan = NoChan
    /\ wg = 0
    /\ workers = <<>>
    /\ closer = "none"
    /\ panicked = FALSE
    /\ flags = NoFlags
    /\ hasFailed = FALSE
    /\ exitCode = NotExited
    /\ env = NoEnv
    /\ hist = InitHist

parVars == <<numWorkers, jobs, resultsChan, wg, workers, closer, panicked>>

\* ---------------------------------------------------------- entry points
\* Manager.Execute: mode selection
Execute ==
    /\ pc = "idle"
    /\ IF ParallelWorkers(config) > 1
       THEN pc' = "par_start" /\ hist' = [hist EXCEPT !.mode = "parallel",
                                                      !.startDone = ctxDone]
       ELSE pc' = "seq_loop" /\ hist' = [hist EXCEPT !.mode = "sequential",
                                 !.startDone = ctxDone,
                                 !.cancelK = IF ctxDone THEN 1 ELSE 0]
    /\ i' = 1
    /\ UNCHANGED <<cmdVars, config, ctxDone, onProgress, result, results, summary, parVars>>

\* a command calling ExecuteSequential directly (e.g. runPush)
CallExecuteSequential ==
    /\ pc = "idle"
    /\ pc' = "seq_loop"
    /\ i' = 1
    /\ hist' = [hist EXCEPT !.mode = "sequential",
                            !.startDone = ctxDone,
                            !.cancelK = IF ctxDone THEN 1 ELSE 0]
    /\ UNCHANGED <<cmdVars, config, ctxDone, onProgress, result, results, summary, parVars>>

\* a command calling ExecuteParallel directly (e.g. runPush)
CallExecuteParallel ==
    /\ pc = "idle"
    /\ pc' = "par_start"
    /\ i' = 1
    /\ hist' = [hist EXCEPT !.mode = "parallel", !.startDone = ctxDone]
    /\ UNCHANGED <<cmdVars, config, ctxDone, onProgress, result, results, summary, parVars>>

\* context cancellation, at any moment of the run
Cancel ==
    /\ pc \notin {"idle", "done"}
    /\ ~ctxDone
    /\ ctxDone' = TRUE
    /\ hist' = [hist EXCEPT
                  !.cancelK = IF hist.mode # "sequential" THEN 0
                              ELSE IF pc = "seq_loop" THEN i ELSE i + 1,
                  !.interrupted = hist.running # {}]
    /\ UNCHANGED <<cmdVars, config, onProgress, pc, i, result, results, summary, parVars>>

\* ------------------------------------------------------ ExecuteSequential
\* mutant: the loop also stops after a Result with Success = false
SeqCheckAbortOnFailure ==
    /\ pc = "seq_loop"
    /\ IF \/ i > RepositoryCount(config)
          \/ CtxErr(ctxDone) # "nil"
          \/ (Len(results) > 0 /\ ~results[Len(results)].Success)
       THEN pc' = "seq_return"
       ELSE pc' = "seq_call"
    /\ UNCHANGED <<cmdVars, config, ctxDone, onProgress, i, result, results, summary, parVars, hist>>

\* mutant: ctx.Err() is checked before the first iteration only
SeqCheckOnceAtStart ==
    /\ pc = "seq_loop"
    /\ IF i > RepositoryCount(config) \/ (i = 1 /\ CtxErr(ctxDone) # "nil")
       THEN pc' = "seq_return"
       ELSE pc' = "seq_call"
    /\ UNCHANGED <<cmdVars, config, ctxDone, onProgress, i, result, results, summary, parVars, hist>>

\* head of `for _, repo := range m.config.Repositories` and the ctx.Err() check
SeqCheck ==
    /\ pc = "seq_loop"
    /\ IF i > RepositoryCount(config) \/ CtxErr(ctxDone) # "nil"
       THEN pc' = "seq_return"
       ELSE pc' = "seq_call"
    /\ UNCHANGED <<cmdVars, config, ctxDone, onProgress, i, result, results, summary, parVars, hist>>

\* result := task(repo): the call
SeqCall ==
    /\ pc = "seq_call"
    /\ pc' = "seq_task"
    /\ hist' = [hist EXCEPT !.invoked[config.Repositories[i]] = @ + 1,
                            !.running = @ \cup {config.Repositories[i]}]
    /\ UNCHANGED <<cmdVars, config, ctxDone, onProgress, i, result, results, summary, parVars>>

\* result := task(repo): the Task returns
SeqTaskReturn ==
    /\ pc = "seq_task"
    /\ \E r \in TaskResults(config.Repositories[i]) :
          /\ result' = r
          /\ hist' = [hist EXCEPT !.returned[config.Repositories[i]] = r,
                                  !.running = @ \ {config.Repositories[i]}]
    /\ pc' = "seq_append"
    /\ UNCHANGED <<cmdVars, config, ctxDone, onProgress, i, results, summary, parVars>>

\* mutant: the Result is put in front of the earlier ones
SeqAppendFront ==
    /\ pc = "seq_append"
    /\ results' = <<result>> \o results
    /\ result' = NoResult
    /\ IF onProgress
       THEN pc' = "seq_progress" /\ i' = i
       ELSE pc' = "seq_loop" /\ i' = i + 1
    /\ UNCHANGED <<cmdVars, config, ctxDone, onProgress, summary, parVars, hist>>

\* results = append(results, result); if onProgress != nil
SeqAppend ==
    /\ pc = "seq_append"
    /\ results' = Append(results, result)
    /\ result' = NoResult
    /\ IF onProgress
       THEN pc' = "seq_progress" /\ i' = i
       ELSE pc' = "seq_loop" /\ i' = i + 1
    /\ UNCHANGED <<cmdVars, config, ctxDone, onProgress, summary, parVars, hist>>

\* onProgress()
SeqProgress ==
    /\ pc = "seq_progress"
    /\ pc' = "seq_loop"
    /\ i' = i + 1
    /\ hist' = [hist EXCEPT !.progress[config.Repositories[i]] = @ + 1]
    /\ UNCHANGED <<cmdVars, config, ctxDone, onProgress, result, results, summary, parVars>>

\* mutant: the last Result is left out of the Summary
SeqReturnDropsLast ==
    /\ pc = "seq_return"
    /\ summary' = NewSummary(SubSeq(results, 1, Len(results) - 1))
    /\ pc' = "done"
    /\ UNCHANGED <<cmdVars, config, ctxDone, onProgress, i, result, results, parVars, hist>>

\* return NewSummary(results, ...)
SeqReturn ==
    /\ pc = "seq_return"
    /\ summary' = NewSummary(results)
    /\ pc' = "done"
    /\ UNCHANGED <<cmdVars, config, ctxDone, onProgress, i, result, results, parVars, hist>>

\* ------------------------------------------------------- ExecuteParallel
\* a worker goroutine at the head of `for repo := range jobs`
NextIteration == [pc |-> "range", repo |-> 0, result |-> NoResult]

\* mutant: the empty case returns without building a Summary
ParStartNilOnEmpty ==
    /\ pc = "par_start"
    /\ IF RepositoryCount(config) = 0
       THEN /\ pc' = "done"
            /\ UNCHANGED <<summary, jobs, resultsChan, numWorkers, i>>
       ELSE /\ jobs' = MakeChan(RepositoryCount(config))
            /\ resultsChan' = MakeChan(RepositoryCount(config))
            /\ numWorkers' = NumWorkers(config)
            /\ i' = 0
            /\ pc' = "par_spawn"
            /\ UNCHANGED summary
    /\ UNCHANGED <<cmdVars, config, ctxDone, onProgress, result, results, wg, workers,
                   closer, panicked, hist>>

\* numRepos == 0 early return; make(chan ...) x2; numWorkers
ParStart ==
    /\ pc = "par_start"
    /\ IF RepositoryCount(config) = 0
       THEN /\ summary' = NewSummary(<<>>)
            /\ pc' = "done"
            /\ UNCHANGED <<jobs, resultsChan, numWorkers, i>>
       ELSE /\ jobs' = MakeChan(RepositoryCount(config))
            /\ resultsChan' = MakeChan(RepositoryCount(config))
            /\ numWorkers' = NumWorkers(config)
            /\ i' = 0
            /\ pc' = "par_spawn"
            /\ UNCHANGED summary
    /\ UNCHANGED <<cmdVars, config, ctxDone, onProgress, result, results, wg, workers,
                   closer, panicked, hist>>

\* mutant: the workers are started without wg.Add(1)
ParSpawnNoAdd ==
    /\ pc = "par_spawn"
    /\ i < numWorkers
    /\ wg' = wg
    /\ workers' = Append(workers, NextIteration)
    /\ IF i + 1 < numWorkers
       THEN i' = i + 1 /\ pc' = pc
       ELSE i' = 1 /\ pc' = "par_send"
    /\ UNCHANGED <<cmdVars, config, ctxDone, onProgress, result, results, summary,
                   numWorkers, jobs, resultsChan, closer, panicked, hist>>

\* mutant: a single worker is started, whatever numWorkers is
ParSpawnOne ==
    /\ pc = "par_spawn"
    /\ i < numWorkers
    /\ wg' = wg + 1
    /\ workers' = Append(workers, NextIteration)
    /\ i' = 1 /\ pc' = "par_send"
    /\ UNCHANGED <<cmdVars, config, ctxDone, onProgress, result, results, summary,
                   numWorkers, jobs, resultsChan, closer, panicked, hist>>

\* for i := 0; i < numWorkers; i++ { wg.Add(1); go func() {...}() }
ParSpawn ==
    /\ pc = "par_spawn"
    /\ i < numWorkers
    /\ wg' = wg + 1
    /\ workers' = Append(workers, NextIteration)
    /\ IF i + 1 < numWorkers
       THEN i' = i + 1 /\ pc' = pc
       ELSE i' = 1 /\ pc' = "par_send"
    /\ UNCHANGED <<cmdVars, config, ctxDone, onProgress, result, results, summary,
                   numWorkers, jobs, resultsChan, closer, panicked, hist>>

\* for _, repo := range repos { jobs <- repo }
ParSend ==
    /\ pc = "par_send"
    /\ i <= RepositoryCount(config)
    /\ CanSend(jobs)
    /\ jobs' = ChanSend(jobs, config.Repositories[i])
    /\ i' = i + 1
    /\ pc' = IF i + 1 <= RepositoryCount(config) THEN pc ELSE "par_close"
    /\ UNCHANGED <<cmdVars, config, ctxDone, onProgress, result, results, summary,
                   numWorkers, resultsChan, wg, workers, closer, panicked, hist>>

\* mutant: close(jobs) is left out
ParCloseJobsForgotten ==
    /\ pc = "par_close"
    /\ jobs' = jobs
    /\ pc' = "par_go_closer"
    /\ UNCHANGED <<cmdVars, config, ctxDone, onProgress, i, result, results, summary,
                   numWorkers, resultsChan, wg, workers, closer, panicked, hist>>

\* close(jobs)
ParCloseJobs ==
    /\ pc = "par_close"
    /\ jobs' = ChanClose(jobs)
    /\ pc' = "par_go_closer"
    /\ UNCHANGED <<cmdVars, config, ctxDone, onProgress, i, result, results, summary,
                   numWorkers, resultsChan, wg, workers, closer, panicked, hist>>

\* mutant: results := make([]Result, numRepos), a slice of numRepos zero
\* Results, in place of make([]Result, 0, numRepos)
ParGoCloserZeroFilled ==
    /\ pc = "par_go_closer"
    /\ closer' = "wait"
    /\ results' = [k \in 1..RepositoryCount(config) |-> NoResult]
    /\ pc' = "par_collect"
    /\ UNCHANGED <<cmdVars, config, ctxDone, onProgress, i, result, summary,
                   numWorkers, jobs, resultsChan, wg, workers, panicked, hist>>

\* go func() { wg.Wait(); close(resultsChan) }(); results := make(...)
ParGoCloser ==
    /\ pc = "par_go_closer"
    /\ closer' = "wait"
    /\ results' = <<>>
    /\ pc' = "par_collect"
    /\ UNCHANGED <<cmdVars, config, ctxDone, onProgress, i, result, summary,
                   numWorkers, jobs, resultsChan, wg, workers, panicked, hist>>

\* mutant: the collector puts a received Result in front of the others
ParCollectPrepend ==
    /\ pc = "par_collect"
    /\ CanRecv(resultsChan)
    /\ results' = <<Head(resultsChan.buf)>> \o results
    /\ resultsChan' = ChanRecv(resultsChan)
    /\ UNCHANGED <<cmdVars, config, ctxDone, onProgress, pc, i, result, summary,
                   numWorkers, jobs, wg, workers, closer, panicked, hist>>

\* for result := range resultsChan { results = append(results, result) }
ParCollect ==
    /\ pc = "par_collect"
    /\ CanRecv(resultsChan)
    /\ results' = Append(results, Head(resultsChan.buf))
    /\ resultsChan' = ChanRecv(resultsChan)
    /\ UNCHANGED <<cmdVars, config, ctxDone, onProgress, pc, i, result, summary,
                   numWorkers, jobs, wg, workers, closer, panicked, hist>>

\* mutant: the collector returns at the close, leaving Results in the sink
ParReturnUndrained ==
    /\ pc = "par_collect"
    /\ resultsChan.closed
    /\ summary' = NewSummary(results)
    /\ pc' = "done"
    /\ UNCHANGED <<cmdVars, config, ctxDone, onProgress, i, result, results,
                   numWorkers, jobs, resultsChan, wg, workers, closer,
                   panicked, hist>>

\* end of the range over resultsChan; return NewSummary(results, ...)
ParReturn ==
    /\ pc = "par_collect"
    /\ RangeEnds(resultsChan)
    /\ summary' = NewSummary(results)
    /\ pc' = "done"
    /\ UNCHANGED <<cmdVars, config, ctxDone, onProgress, i, result, results,
                   numWorkers, jobs, resultsChan, wg, workers, closer,
                   panicked, hist>>

\* mutant: the closer does not wait for the workers
WgWaitAlwaysReady(n) == TRUE
\* the closer goroutine: wg.Wait() returns
WgWaitReady(n) == n = 0

CloserWait ==
    /\ closer = "wait"
    /\ WgWaitReady(wg)
    /\ closer' = "close"
    /\ UNCHANGED <<cmdVars, config, ctxDone, onProgress, pc, i, result, results, summary,
                   numWorkers, jobs, resultsChan, wg, workers, panicked, hist>>

\* the closer goroutine: close(resultsChan)
CloserClose ==
    /\ closer = "close"
    /\ resultsChan' = ChanClose(resultsChan)
    /\ closer' = "done"
    /\ UNCHANGED <<cmdVars, config, ctxDone, onProgress, pc, i, result, results, summary,
                   numWorkers, jobs, wg, workers, panicked, hist>>

\* ---------------------------------------------------------------- workers
mainVars == <<cmdVars, config, onProgress, pc, i, result, results, summary,
              numWorkers, closer>>

\* `for repo := range jobs`: a descriptor is received
WorkerDequeue(w) ==
    /\ workers[w].pc = "range"
    /\ CanRecv(jobs)
    /\ LET repo == Head(jobs.buf) IN
          /\ workers' = [workers EXCEPT ![w].pc = "select", ![w].repo = repo]
          /\ hist' = [hist EXCEPT !.dequeued[repo] = @ + 1,
                                  !.lateDeq = IF ctxDone THEN @ \cup {repo} ELSE @]
    /\ jobs' = ChanRecv(jobs)
    /\ UNCHANGED <<mainVars, ctxDone, resultsChan, wg, panicked>>

\* `for repo := range jobs` ends; deferred wg.Done()
WorkerExit(w) ==
    /\ workers[w].pc = "range"
    /\ RangeEnds(jobs)
    /\ workers' = [workers EXCEPT ![w].pc = "exited"]
    /\ wg' = wg - 1
    /\ UNCHANGED <<mainVars, ctxDone, jobs, resultsChan, panicked, hist>>

\* mutant: the worker goes on to the Task without looking at the context
WorkerSelectUnchecked(w) ==
    /\ workers[w].pc = "select"
    /\ workers' = [workers EXCEPT ![w].pc = "call"]
    /\ UNCHANGED <<mainVars, ctxDone, jobs, resultsChan, wg, panicked, hist>>

\* select { case <-ctx.Done(): build the cancelled Result; default: }
WorkerSelect(w) ==
    /\ workers[w].pc = "select"
    /\ IF CtxErr(ctxDone) # "nil"
       THEN workers' = [workers EXCEPT
                          ![w].pc = "send_cancelled",
                          ![w].result = CancelledResult(workers[w].repo, ctxDone)]
       ELSE workers' = [workers EXCEPT ![w].pc = "call"]
    /\ UNCHANGED <<mainVars, ctxDone, jobs, resultsChan, wg, panicked, hist>>

\* mutant: a cancelled descriptor is dropped, as in ExecuteSequential
WorkerDropCancelled(w) ==
    /\ workers[w].pc = "send_cancelled"
    /\ workers' = [workers EXCEPT ![w] = NextIteration]
    /\ UNCHANGED <<mainVars, ctxDone, jobs, resultsChan, wg, panicked, hist>>

\* resultsChan <- Result{...}; continue
WorkerSendCancelled(w) ==
    /\ workers[w].pc = "send_cancelled"
    /\ CanSend(resultsChan)
    /\ IF resultsChan.closed
       THEN /\ panicked' = TRUE
            /\ workers' = [workers EXCEPT ![w].pc = "panic"]
            /\ UNCHANGED <<resultsChan, hist>>
       ELSE /\ resultsChan' = ChanSend(resultsChan, workers[w].result)
            /\ workers' = [workers EXCEPT ![w] = NextIteration]
            /\ hist' = [hist EXCEPT !.forwarded[workers[w].repo] = @ + 1]
            /\ UNCHANGED panicked
    /\ UNCHANGED <<mainVars, ctxDone, jobs, wg>>

\* result := task(repo): the call
WorkerCall(w) ==
    /\ workers[w].pc = "call"
    /\ workers' = [workers EXCEPT ![w].pc = "task"]
    /\ hist' = [hist EXCEPT !.invoked[workers[w].repo] = @ + 1,
                            !.running = @ \cup {workers[w].repo}]
    /\ UNCHANGED <<mainVars, ctxDone, jobs, resultsChan, wg, panicked>>

\* result := task(repo): the Task returns
WorkerTaskReturn(w) ==
    /\ workers[w].pc = "task"
    /\ \E r \in TaskResults(workers[w].repo) :
          /\ workers' = [workers EXCEPT ![w].pc = "send", ![w].result = r]
          /\ hist' = [hist EXCEPT !.returned[workers[w].repo] = r,
                                  !.running = @ \ {workers[w].repo}]
    /\ UNCHANGED <<mainVars, ctxDone, jobs, resultsChan, wg, panicked>>

\* mutant: the worker checks the context again after the Task and
\* forwards a cancelled Result in place of the one the Task returned
WorkerSendRechecked(w) ==
    /\ workers[w].pc = "send"
    /\ CanSend(resultsChan)
    /\ ~resultsChan.closed
    /\ resultsChan' = ChanSend(resultsChan,
                          IF ctxDone THEN CancelledResult(workers[w].repo, ctxDone)
                          ELSE workers[w].result)
    /\ workers' = [workers EXCEPT
                     ![w] = IF onProgress
                            THEN [@ EXCEPT !.pc = "progress", !.result = NoResult]
                            ELSE NextIteration]
    /\ hist' = [hist EXCEPT !.forwarded[workers[w].repo] = @ + 1]
    /\ UNCHANGED <<mainVars, ctxDone, jobs, wg, panicked>>

\* resultsChan <- result; if onProgress != nil
WorkerSend(w) ==
    /\ workers[w].pc = "send"
    /\ CanSend(resultsChan)
    /\ IF resultsChan.closed
       THEN /\ panicked' = TRUE
            /\ workers' = [workers EXCEPT ![w].pc = "panic"]
            /\ UNCHANGED <<resultsChan, hist>>
       ELSE /\ resultsChan' = ChanSend(resultsChan, workers[w].result)
            /\ workers' = [workers EXCEPT
                             ![w] = IF onProgress
                                    THEN [@ EXCEPT !.pc = "progress",
                                                   !.result = NoResult]
                                    ELSE NextIteration]
            /\ hist' = [hist EXCEPT !.forwarded[workers[w].repo] = @ + 1]
            /\ UNCHANGED panicked
    /\ UNCHANGED <<mainVars, ctxDone, jobs, wg>>

\* onProgress()
WorkerProgress(w) ==
    /\ workers[w].pc = "progress"
    /\ workers' = [workers EXCEPT ![w] = NextIteration]
    /\ hist' = [hist EXCEPT
                  !.progress[workers[w].repo] = @ + 1,
                  !.earlyProg = IF hist.forwarded[workers[w].repo] = 0
                                THEN @ \cup {workers[w].repo} ELSE @]
    /\ UNCHANGED <<mainVars, ctxDone, jobs, resultsChan, wg, panicked>>

Next ==
    \/ Execute
    \/ CallExecuteSequential
    \/ CallExecuteParallel
    \/ Cancel
    \/ SeqCheck
    \/ SeqCall
    \/ SeqTaskReturn
    \/ SeqAppend
    \/ SeqProgress
    \/ SeqReturn
    \/ ParStart
    \/ ParSpawn
    \/ ParSend
    \/ ParCloseJobs
    \/ ParGoCloser
    \/ ParCollect
    \/ ParReturn
    \/ CloserWait
    \/ CloserClose
    \/ \E w \in 1..Len(workers) : WorkerDequeue(w)
    \/ \E w \in 1..Len(workers) : WorkerExit(w)
    \/ \E w \in 1..Len(workers) : WorkerSelect(w)
    \/ \E w \in 1..Len(workers) : WorkerSendCancelled(w)
    \/ \E w \in 1..Len(workers) : WorkerCall(w)
    \/ \E w \in 1..Len(workers) : WorkerTaskReturn(w)
    \/ \E w \in 1..Len(workers) : WorkerSend(w)
    \/ \E w \in 1..Len(workers) : WorkerProgress(w)

Spec == Init /\ [][Next]_vars

\* ------------------------------------------- ExecuteParallel, fair schedule
\* A Result that stands for whatever the Task returns: ExecuteParallel
\* passes the Result on without looking into it
OpaqueResult(repo) ==
    [RepoName |-> repo, Success |-> TRUE, Error |-> "nil",
     Duration |-> 1, Message |-> ""]

\* result := task(repo): the Task returns
OpaqueTaskReturn(w) ==
    /\ workers[w].pc = "task"
    /\ workers' = [workers EXCEPT ![w].pc = "send",
                                  ![w].result = OpaqueResult(workers[w].repo)]
    /\ hist' = [hist EXCEPT
                  !.returned[workers[w].repo] = OpaqueResult(workers[w].repo),
                  !.running = @ \ {workers[w].repo}]
    /\ UNCHANGED <<mainVars, ctxDone, jobs, resultsChan, wg, panicked>>

\* the steps of the goroutines of ExecuteParallel
LiveSteps ==
    \/ CallExecuteParallel
    \/ ParStart
    \/ ParSpawn
    \/ ParSend
    \/ ParCloseJobs
    \/ ParGoCloser
    \/ ParCollect
    \/ ParReturn
    \/ CloserWait
    \/ CloserClose
    \/ \E w \in 1..Len(workers) : WorkerDequeue(w)
    \/ \E w \in 1..Len(workers) : WorkerExit(w)
    \/ \E w \in 1..Len(workers) : WorkerSelect(w)
    \/ \E w \in 1..Len(workers) : WorkerSendCancelled(w)
    \/ \E w \in 1..Len(workers) : WorkerCall(w)
    \/ \E w \in 1..Len(workers) : OpaqueTaskReturn(w)
    \/ \E w \in 1..Len(workers) : WorkerSend(w)
    \/ \E w \in 1..Len(workers) : WorkerProgress(w)

NextLive == LiveSteps \/ Cancel

\* The Go scheduler runs a goroutine that can take a step, and a Task or
\* an onProgress call that has started returns: while a step of the run is
\* possible one is taken.  The caller of cancel() is under no obligation.
SpecLive == Init /\ [][NextLive]_vars /\ WF_vars(LiveSteps)

\* ------------------------------------------------------ the exec command
\* end of a command: if summary.HasFailures() { os.Exit(1) }
CommandExit ==
    /\ pc = "done"
    /\ exitCode' = ExitStatus(summary)
    /\ pc' = "exited"
    /\ UNCHANGED <<env, flags, hasFailed, config, ctxDone, onProgress, i, result,
                   results, summary, parVars, hist>>

\* execTask step 1: !mgr.RepositoryExists(repo)
ExecNotFound(repo) ==
    [RepoName |-> repo, Success |-> FALSE, Error |-> "repository not found",
     Duration |-> 1, Message |-> ""]
\* execTask step 2: if execDryRun
ExecWouldExecute(repo) ==
    [RepoName |-> repo, Success |-> TRUE, Error |-> "nil",
     Duration |-> 1, Message |-> "would execute"]
\* execTask step 3: shell.Execute fails or succeeds
ExecShellResults(repo) ==
    { [RepoName |-> repo, Success |-> FALSE, Error |-> "command failed",
       Duration |-> 1, Message |-> ""],
      [RepoName |-> repo, Success |-> TRUE, Error |-> "nil",
       Duration |-> 1, Message |-> "executed successfully"] }

\* mutant: the dry-run flag is not looked at
ExecTaskOutcomesNoDryRun(repo, fl) ==
    {[result |-> ExecNotFound(repo), exists |-> FALSE, shell |-> FALSE]}
      \cup {[result |-> r, exists |-> TRUE, shell |-> TRUE] :
                r \in ExecShellResults(repo)}
\* What execTask does after the fail-fast check: the Result it builds,
\* whether the repository directory exists and whether shell.Execute was
\* called
ExecTaskOutcomes(repo, fl) ==
    {[result |-> ExecNotFound(repo), exists |-> FALSE, shell |-> FALSE]}
      \cup (IF fl.execDryRun
            THEN {[result |-> ExecWouldExecute(repo), exists |-> TRUE,
                   shell |-> FALSE]}
            ELSE {[result |-> r, exists |-> TRUE, shell |-> TRUE] :
                     r \in ExecShellResults(repo)})

\* the Result of the fail-fast check at the head of execTask
ExecSkippedResult(repo) ==
    [RepoName |-> repo, Success |-> FALSE, Error |-> SkippedDueToFailure,
     Duration |-> 1, Message |-> ""]

\* workers := execParallel; if workers <= 0 { workers = mgr.ParallelWorkers() }
ExecWorkers(fl, cfg) ==
    IF fl.execParallel <= 0 THEN ParallelWorkers(cfg) ELSE fl.execParallel

InitExec ==
    /\ \E n \in 0..MaxRepos, p \in 0..MaxParallel :
          config = [Repositories |-> [k \in 1..n |-> k], ParallelWorkers |-> p]
    /\ \E ff \in BOOLEAN, ep \in 0..MaxExecParallel, dr \in BOOLEAN :
          flags = [execFailFast |-> ff, execParallel |-> ep, execDryRun |-> dr]
    /\ ctxDone = FALSE
    /\ onProgress = FALSE
    /\ pc = "idle"
    /\ i = 0
    /\ result = NoResult
    /\ results = <<>>
    /\ summary = NoSummary
    /\ numWorkers = 0
    /\ jobs = NoChan
    /\ resultsChan = NoChan
    /\ wg = 0
    /\ workers = <<>>
    /\ closer = "none"
    /\ panicked = FALSE
    /\ hasFailed = FALSE
    /\ exitCode = NotExited
    /\ env = NoEnv
    /\ hist = InitHist

\* runExec step 9: if workers > 1 ExecuteParallel else ExecuteSequential
RunExec ==
    /\ pc = "idle"
    /\ IF ExecWorkers(flags, config) > 1
       THEN pc' = "par_start" /\ hist' = [hist EXCEPT !.mode = "parallel"]
       ELSE pc' = "seq_loop" /\ hist' = [hist EXCEPT !.mode = "sequential"]
    /\ i' = 1
    /\ UNCHANGED <<cmdVars, config, ctxDone, onProgress, result, results,
                   summary, parVars>>

\* execTask called by a worker: the fail-fast check at its head
ExecTaskEnter(w) ==
    /\ workers[w].pc = "call"
    /\ IF flags.execFailFast /\ hasFailed
       THEN /\ workers' = [workers EXCEPT
                             ![w].pc = "send",
                             ![w].result = ExecSkippedResult(workers[w].repo)]
            /\ \E exists \in BOOLEAN :
                  hist' = [hist EXCEPT
                             !.invoked[workers[w].repo] = @ + 1,
                             !.returned[workers[w].repo] =
                                 ExecSkippedResult(workers[w].repo),
                             !.present = IF exists
                                         THEN @ \cup {workers[w].repo}
                                         ELSE @]
       ELSE /\ workers' = [workers EXCEPT ![w].pc = "task"]
            /\ hist' = [hist EXCEPT
                          !.invoked[workers[w].repo] = @ + 1,
                          !.running = @ \cup {workers[w].repo},
                          !.ranOp = @ \cup {workers[w].repo}]
    /\ UNCHANGED <<mainVars, ctxDone, jobs, resultsChan, wg, panicked>>

\* execTask in a worker: repository check, shell.Execute, Result built
ExecTaskRun(w) ==
    /\ workers[w].pc = "task"
    /\ \E o \in ExecTaskOutcomes(workers[w].repo, flags) :
          /\ workers' = [workers EXCEPT
                           ![w].pc = IF ~o.result.Success /\ flags.execFailFast
                                     THEN "store" ELSE "send",
                           ![w].result = o.result]
          /\ hist' = [hist EXCEPT
                        !.returned[workers[w].repo] = o.result,
                        !.running = IF ~o.result.Success /\ flags.execFailFast
                                    THEN @ ELSE @ \ {workers[w].repo},
                        !.effect = IF o.shell THEN @ \cup {workers[w].repo}
                                   ELSE @,
                        !.present = IF o.exists THEN @ \cup {workers[w].repo}
                                    ELSE @]
    /\ UNCHANGED <<mainVars, ctxDone, jobs, resultsChan, wg, panicked>>

\* execTask in a worker: hasFailed.Store(true)
ExecStoreFailed(w) ==
    /\ workers[w].pc = "store"
    /\ hasFailed' = TRUE
    /\ workers' = [workers EXCEPT ![w].pc = "cancel"]
    /\ UNCHANGED <<env, flags, exitCode, config, onProgress, pc, i, result, results,
                   summary, numWorkers, closer, ctxDone, jobs, resultsChan, wg,
                   panicked, hist>>

\* execTask in a worker: cancel(); return result
ExecCancel(w) ==
    /\ workers[w].pc = "cancel"
    /\ ctxDone' = TRUE
    /\ workers' = [workers EXCEPT ![w].pc = "send"]
    /\ hist' = [hist EXCEPT !.running = @ \ {workers[w].repo},
                            !.interrupted = (hist.running \ {workers[w].repo}) # {}]
    /\ UNCHANGED <<mainVars, jobs, resultsChan, wg, panicked>>

\* execTask called by ExecuteSequential: the fail-fast check at its head
SeqExecTaskEnter ==
    /\ pc = "seq_call"
    /\ IF flags.execFailFast /\ hasFailed
       THEN /\ pc' = "seq_append"
            /\ result' = ExecSkippedResult(config.Repositories[i])
            /\ \E exists \in BOOLEAN :
                  hist' = [hist EXCEPT
                             !.invoked[config.Repositories[i]] = @ + 1,
                             !.returned[config.Repositories[i]] =
                                 ExecSkippedResult(config.Repositories[i]),
                             !.present = IF exists
                                         THEN @ \cup {config.Repositories[i]}
                                         ELSE @]
       ELSE /\ pc' = "seq_task"
            /\ result' = result
            /\ hist' = [hist EXCEPT
                          !.invoked[config.Repositories[i]] = @ + 1,
                          !.ranOp = @ \cup {config.Repositories[i]}]
    /\ UNCHANGED <<cmdVars, config, ctxDone, onProgress, i, results, summary,
                   parVars>>

\* execTask in ExecuteSequential: repository check, shell.Execute, Result
SeqExecTaskRun ==
    /\ pc = "seq_task"
    /\ \E o \in ExecTaskOutcomes(config.Repositories[i], flags) :
          /\ result' = o.result
          /\ pc' = IF ~o.result.Success /\ flags.execFailFast
                   THEN "seq_store" ELSE "seq_append"
          /\ hist' = [hist EXCEPT
                        !.returned[config.Repositories[i]] = o.result,
                        !.effect = IF o.shell
                                   THEN @ \cup {config.Repositories[i]}
                                   ELSE @,
                        !.present = IF o.exists
                                    THEN @ \cup {config.Repositories[i]}
                                    ELSE @]
    /\ UNCHANGED <<cmdVars, config, ctxDone, onProgress, i, results, summary,
                   parVars>>

\* execTask in ExecuteSequential: hasFailed.Store(true)
SeqExecStoreFailed ==
    /\ pc = "seq_store"
    /\ hasFailed' = TRUE
    /\ pc' = "seq_cancel"
    /\ UNCHANGED <<env, flags, exitCode, config, ctxDone, onProgress, i, result,
                   results, summary, parVars, hist>>

\* mutant: the fail-fast branch stores hasFailed but does not call cancel()
SeqExecCancelForgotten ==
    /\ pc = "seq_cancel"
    /\ ctxDone' = ctxDone
    /\ pc' = "seq_append"
    /\ hist' = [hist EXCEPT !.cancelK = i + 1]
    /\ UNCHANGED <<cmdVars, config, onProgress, i, result, results, summary,
                   parVars>>

\* execTask in ExecuteSequential: cancel(); return result
SeqExecCancel ==
    /\ pc = "seq_cancel"
    /\ ctxDone' = TRUE
    /\ pc' = "seq_append"
    /\ hist' = [hist EXCEPT !.cancelK = i + 1]
    /\ UNCHANGED <<cmdVars, config, onProgress, i, result, results, summary,
                   parVars>>

NextExec ==
    \/ RunExec
    \/ SeqCheck
    \/ SeqExecTaskEnter
    \/ SeqExecTaskRun
    \/ SeqExecStoreFailed
    \/ SeqExecCancel
    \/ SeqAppend
    \/ SeqReturn
    \/ ParStart
    \/ ParSpawn
    \/ ParSend
    \/ ParCloseJobs
    \/ ParGoCloser
    \/ ParCollect
    \/ ParReturn
    \/ CloserWait
    \/ CloserClose
    \/ \E w \in 1..Len(workers) : WorkerDequeue(w)
    \/ \E w \in 1..Len(workers) : WorkerExit(w)
    \/ \E w \in 1..Len(workers) : WorkerSelect(w)
    \/ \E w \in 1..Len(workers) : WorkerSendCancelled(w)
    \/ \E w \in 1..Len(workers) : ExecTaskEnter(w)
    \/ \E w \in 1..Len(workers) : ExecTaskRun(w)
    \/ \E w \in 1..Len(workers) : ExecStoreFailed(w)
    \/ \E w \in 1..Len(workers) : ExecCancel(w)
    \/ \E w \in 1..Len(workers) : WorkerSend(w)
    \/ CommandExit

SpecExec == InitExec /\ [][NextExec]_vars

\* ------------------------------------------------------ the push command
\* strings.ToLower on the characters the prompt may read
LowerChar(c) ==
    CASE c = "Y" -> "y"
      [] c = "E" -> "e"
      [] c = "S" -> "s"
      [] c = "N" -> "n"
      [] OTHER -> c
ToLower(str) == [k \in 1..Len(str) |-> LowerChar(str[k])]
IsSpace(c) == c \in {" ", "\t", "\n", "\r"}
\* strings.TrimSpace
RECURSIVE TrimLeft(_)
TrimLeft(str) ==
    IF Len(str) > 0 /\ IsSpace(Head(str)) THEN TrimLeft(Tail(str)) ELSE str
RECURSIVE TrimRight(_)
TrimRight(str) ==
    IF Len(str) > 0 /\ IsSpace(str[Len(str)])
    THEN TrimRight(SubSeq(str, 1, Len(str) - 1)) ELSE str
TrimSpace(str) == TrimRight(TrimLeft(str))

\* What the prompt can read from standard input: the characters before the
\* line end, and whether the input ended (or failed) before a line end
StdinInputs ==
    {[read |-> TRUE, text |-> t, eof |-> e] :
        t \in {<<"y">>, <<" ", "Y", "E", "S", "\r">>,
               <<"n">>, <<>>, <<"y", "e", "p">>},
        e \in BOOLEAN}

\* mutant: an empty answer is taken as the default "yes"
confirmForcePushDefaultYes(in) ==
    IF in.eof THEN FALSE
    ELSE LET input == TrimSpace(ToLower(in.text \o <<"\n">>))
         IN input = <<"y">> \/ input = <<"y", "e", "s">> \/ input = <<>>
\* confirmForcePush: reader.ReadString('\n'), TrimSpace(ToLower(input))
confirmForcePush(in) ==
    IF in.eof THEN FALSE
    ELSE LET input == TrimSpace(ToLower(in.text \o <<"\n">>))
         IN input = <<"y">> \/ input = <<"y", "e", "s">>

\* workers := pushParallel; if workers <= 0 { workers = mgr.ParallelWorkers() }
PushWorkers(fl, cfg) ==
    IF fl.pushParallel <= 0 THEN ParallelWorkers(cfg) ELSE fl.pushParallel

PushFailure(repo, err) ==
    [RepoName |-> repo, Success |-> FALSE, Error |-> err,
     Duration |-> 1, Message |-> ""]
PushSuccess(repo, msg) ==
    [RepoName |-> repo, Success |-> TRUE, Error |-> "nil",
     Duration |-> 1, Message |-> msg]

\* mutant: Client.Push does not look at opts.DryRun
PushTaskOutcomesNoDryRun(repo, fl) ==
    {[result |-> PushFailure(repo, e), remote |-> FALSE, switched |-> FALSE] :
        e \in {"repository not cloned", "branch does not exist"}}
      \cup {[result |-> r, remote |-> TRUE, switched |-> sw] :
              r \in {PushFailure(repo, "failed to push branch"),
                     PushSuccess(repo,
                          IF fl.pushDryRun
                          THEN "would be force pushed (dry-run)"
                          ELSE "force pushed successfully")},
              sw \in BOOLEAN}
\* pushTask: the Result it builds, whether repo.Push (the remote push) was
\* executed, and whether step 3 checked out localBranch because the
\* repository was on another branch.  Steps 1-3 and the checks at the head
\* of Client.Push fail before any remote operation (the failures after
\* step 1 differ only in their text and share one Result here); step 3 runs
\* whatever pushDryRun is; with DryRun Client.Push returns after its checks.
PushTaskOutcomes(repo, fl) ==
    {[result |-> PushFailure(repo, e), remote |-> FALSE, switched |-> FALSE] :
        e \in {"repository not cloned", "branch does not exist"}}
      \cup (IF fl.pushDryRun
            THEN {[result |-> PushSuccess(repo, "would be force pushed (dry-run)"),
                   remote |-> FALSE, switched |-> sw] : sw \in BOOLEAN}
            ELSE {[result |-> r, remote |-> TRUE, switched |-> sw] :
                    r \in {PushFailure(repo, "failed to push branch"),
                           PushSuccess(repo, "force pushed successfully")},
                    sw \in BOOLEAN})

InitPush ==
    /\ \E n \in 0..MaxRepos, p \in 0..MaxParallel :
          config = [Repositories |-> [k \in 1..n |-> k], ParallelWorkers |-> p]
    /\ \E y \in BOOLEAN, dr \in BOOLEAN, pp \in 0..MaxPushParallel :
          flags = [pushYes |-> y, pushDryRun |-> dr, pushParallel |-> pp]
    /\ ctxDone = FALSE
    /\ onProgress = FALSE
    /\ pc = "idle"
    /\ i = 0
    /\ result = NoResult
    /\ results = <<>>
    /\ summary = NoSummary
    /\ numWorkers = 0
    /\ jobs = NoChan
    /\ resultsChan = NoChan
    /\ wg = 0
    /\ workers = <<>>
    /\ closer = "none"
    /\ panicked = FALSE
    /\ hasFailed = FALSE
    /\ exitCode = NotExited
    /\ env = NoEnv
    /\ hist = InitHist

\* runPush step 6: the confirmation gate
PushConfirm ==
    /\ pc = "idle"
    /\ IF ~flags.pushYes /\ ~flags.pushDryRun
       THEN \E in \in StdinInputs :
               /\ hist' = [hist EXCEPT !.answer = in]
               /\ IF ~confirmForcePush(in)
                  THEN pc' = "exited" /\ exitCode' = 0
                  ELSE pc' = "run" /\ exitCode' = exitCode
       ELSE pc' = "run" /\ UNCHANGED <<exitCode, hist>>
    /\ UNCHANGED <<env, flags, hasFailed, config, ctxDone, onProgress, i, result,
                   results, summary, parVars>>

\* runPush step 9: if workers > 1 ExecuteParallel else ExecuteSequential
RunPush ==
    /\ pc = "run"
    /\ IF PushWorkers(flags, config) > 1
       THEN pc' = "par_start" /\ hist' = [hist EXCEPT !.mode = "parallel"]
       ELSE pc' = "seq_loop" /\ hist' = [hist EXCEPT !.mode = "sequential"]
    /\ i' = 1
    /\ UNCHANGED <<cmdVars, config, ctxDone, onProgress, result, results,
                   summary, parVars>>

\* pushTask run by a worker
PushTaskRun(w) ==
    /\ workers[w].pc = "task"
    /\ \E o \in PushTaskOutcomes(workers[w].repo, flags) :
          /\ workers' = [workers EXCEPT ![w].pc = "send", ![w].result = o.result]
          /\ hist' = [hist EXCEPT
                        !.returned[workers[w].repo] = o.result,
                        !.running = @ \ {workers[w].repo},
                        !.effect = IF o.remote THEN @ \cup {workers[w].repo}
                                   ELSE @,
                        !.switched = IF o.switched
                                     THEN @ \cup {workers[w].repo}
                                     ELSE @]
    /\ UNCHANGED <<mainVars, ctxDone, jobs, resultsChan, wg, panicked>>

\* pushTask run by ExecuteSequential
SeqPushTaskRun ==
    /\ pc = "seq_task"
    /\ \E o \in PushTaskOutcomes(config.Repositories[i], flags) :
          /\ result' = o.result
          /\ hist' = [hist EXCEPT
                        !.returned[config.Repositories[i]] = o.result,
                        !.running = @ \ {config.Repositories[i]},
                        !.effect = IF o.remote
                                   THEN @ \cup {config.Repositories[i]}
                                   ELSE @,
                        !.switched = IF o.switched
                                     THEN @ \cup {config.Repositories[i]}
                                     ELSE @]
    /\ pc' = "seq_append"
    /\ UNCHANGED <<cmdVars, config, ctxDone, onProgress, i, results, summary,
                   parVars>>

NextPush ==
    \/ PushConfirm
    \/ RunPush
    \/ SeqCheck
    \/ SeqCall
    \/ SeqPushTaskRun
    \/ SeqAppend
    \/ SeqReturn
    \/ ParStart
    \/ ParSpawn
    \/ ParSend
    \/ ParCloseJobs
    \/ ParGoCloser
    \/ ParCollect
    \/ ParReturn
    \/ CloserWait
    \/ CloserClose
    \/ \E w \in 1..Len(workers) : WorkerDequeue(w)
    \/ \E w \in 1..Len(workers) : WorkerExit(w)
    \/ \E w \in 1..Len(workers) : WorkerSelect(w)
    \/ \E w \in 1..Len(workers) : WorkerCall(w)
    \/ \E w \in 1..Len(workers) : PushTaskRun(w)
    \/ \E w \in 1..Len(workers) : WorkerSend(w)
    \/ CommandExit

SpecPush == InitPush /\ [][NextPush]_vars

\* ----------------------------------------------------- the clone command
\* workers := cloneParallel; if workers <= 0 { workers = mgr.ParallelWorkers() }
CloneWorkers(fl, cfg) ==
    IF fl.cloneParallel <= 0 THEN ParallelWorkers(cfg) ELSE fl.cloneParallel

\* cloneTask when CloneIfNotExists found the repository: (false, nil)
CloneExistingResult(repo, fl) ==
    IF fl.cloneSkipExisting
    THEN [RepoName |-> repo, Success |-> TRUE, Error |-> "nil",
          Duration |-> 0, Message |-> "skipped (already exists)"]
    ELSE [RepoName |-> repo, Success |-> FALSE,
          Error |-> "directory already exists", Duration |-> 1, Message |-> ""]

\* cloneTask: the Result it builds, whether the repository already
\* existed at its path and whether Clone was executed.  CloneIfNotExists
\* returns (false, nil) for an existing repository, an error for a
\* directory that is not a repository, and otherwise clones.
CloneTaskOutcomes(repo, fl) ==
    { [result |-> CloneExistingResult(repo, fl), exists |-> TRUE,
       cloned |-> FALSE],
      [result |-> [RepoName |-> repo, Success |-> FALSE,
                   Error |-> "directory exists but is not a git repository",
                   Duration |-> 1, Message |-> ""],
       exists |-> FALSE, cloned |-> FALSE],
      [result |-> [RepoName |-> repo, Success |-> FALSE,
                   Error |-> "failed to clone repository",
                   Duration |-> 1, Message |-> ""],
       exists |-> FALSE, cloned |-> TRUE],
      [result |-> [RepoName |-> repo, Success |-> TRUE, Error |-> "nil",
                   Duration |-> 1, Message |-> ""],
       exists |-> FALSE, cloned |-> TRUE] }

InitClone ==
    /\ \E n \in 0..MaxRepos, p \in 0..MaxParallel :
          config = [Repositories |-> [k \in 1..n |-> k], ParallelWorkers |-> p]
    /\ \E sk \in BOOLEAN, cp \in 0..MaxCloneParallel :
          flags = [cloneSkipExisting |-> sk, cloneParallel |-> cp]
    /\ ctxDone = FALSE
    /\ onProgress = TRUE
    /\ pc = "idle"
    /\ i = 0
    /\ result = NoResult
    /\ results = <<>>
    /\ summary = NoSummary
    /\ numWorkers = 0
    /\ jobs = NoChan
    /\ resultsChan = NoChan
    /\ wg = 0
    /\ workers = <<>>
    /\ closer = "none"
    /\ panicked = FALSE
    /\ hasFailed = FALSE
    /\ exitCode = NotExited
    /\ env = NoEnv
    /\ hist = InitHist

\* runClone step 6: if workers > 1 { cfg.ParallelWorkers = workers;
\* ExecuteParallel } else ExecuteSequential, both with a progress bar
RunClone ==
    /\ pc = "idle"
    /\ IF CloneWorkers(flags, config) > 1
       THEN /\ config' = [config EXCEPT
                            !.ParallelWorkers = CloneWorkers(flags, config)]
            /\ pc' = "par_start"
            /\ hist' = [hist EXCEPT !.mode = "parallel"]
       ELSE /\ config' = config
            /\ pc' = "seq_loop"
            /\ hist' = [hist EXCEPT !.mode = "sequential"]
    /\ i' = 1
    /\ UNCHANGED <<cmdVars, ctxDone, onProgress, result, results, summary,
                   parVars>>

\* cloneTask run by a worker
CloneTaskRun(w) ==
    /\ workers[w].pc = "task"
    /\ \E o \in CloneTaskOutcomes(workers[w].repo, flags) :
          /\ workers' = [workers EXCEPT ![w].pc = "send", ![w].result = o.result]
          /\ hist' = [hist EXCEPT
                        !.returned[workers[w].repo] = o.result,
                        !.running = @ \ {workers[w].repo},
                        !.effect = IF o.cloned THEN @ \cup {workers[w].repo}
                                   ELSE @,
                        !.present = IF o.exists THEN @ \cup {workers[w].repo}
                                    ELSE @]
    /\ UNCHANGED <<mainVars, ctxDone, jobs, resultsChan, wg, panicked>>

\* cloneTask run by ExecuteSequential
SeqCloneTaskRun ==
    /\ pc = "seq_task"
    /\ \E o \in CloneTaskOutcomes(config.Repositories[i], flags) :
          /\ result' = o.result
          /\ hist' = [hist EXCEPT
                        !.returned[config.Repositories[i]] = o.result,
                        !.running = @ \ {config.Repositories[i]},
                        !.effect = IF o.cloned
                                   THEN @ \cup {config.Repositories[i]}
                                   ELSE @,
                        !.present = IF o.exists
                                    THEN @ \cup {config.Repositories[i]}
                                    ELSE @]
    /\ pc' = "seq_append"
    /\ UNCHANGED <<cmdVars, config, ctxDone, onProgress, i, results, summary,
                   parVars>>

NextClone ==
    \/ RunClone
    \/ SeqCheck
    \/ SeqCall
    \/ SeqCloneTaskRun
    \/ SeqAppend
    \/ SeqProgress
    \/ SeqReturn
    \/ ParStart
    \/ ParSpawn
    \/ ParSend
    \/ ParCloseJobs
    \/ ParGoCloser
    \/ ParCollect
    \/ ParReturn
    \/ CloserWait
    \/ CloserClose
    \/ \E w \in 1..Len(workers) : WorkerDequeue(w)
    \/ \E w \in 1..Len(workers) : WorkerExit(w)
    \/ \E w \in 1..Len(workers) : WorkerSelect(w)
    \/ \E w \in 1..Len(workers) : WorkerCall(w)
    \/ \E w \in 1..Len(workers) : CloneTaskRun(w)
    \/ \E w \in 1..Len(workers) : WorkerSend(w)
    \/ \E w \in 1..Len(workers) : WorkerProgress(w)
    \/ CommandExit

SpecClone == InitClone /\ [][NextClone]_vars

\* -------------------------------------------------- the checkout command
\* What the checkout Task can find in a repository's directory: no git
\* repository, a repository whose HEAD cannot be read, a repository on
\* another branch (or with a detached HEAD), a repository on branchName
BranchStates == {"absent", "unreadable", "other", "target"}

\* workers := checkoutParallel; if workers <= 0 { workers = mgr.ParallelWorkers() }
CheckoutWorkers(fl, cfg) ==
    IF fl.checkoutParallel <= 0 THEN ParallelWorkers(cfg) ELSE fl.checkoutParallel

CheckoutFailure(repo, err) ==
    [RepoName |-> repo, Success |-> FALSE, Error |-> err,
     Duration |-> 1, Message |-> ""]

\* mutant: the skip Result keeps the elapsed time as its Duration
CheckoutTaskOutcomesTimedSkip(repo, cur) ==
    CASE cur = "absent" ->
            {[result |-> CheckoutFailure(repo, "repository not cloned"),
              branch |-> cur, checkout |-> FALSE]}
      [] cur = "unreadable" ->
            {[result |-> CheckoutFailure(repo, "failed to get current branch"),
              branch |-> cur, checkout |-> FALSE]}
      [] cur = "target" ->
            {[result |-> [RepoName |-> repo, Success |-> TRUE, Error |-> "nil",
                          Duration |-> 1, Message |-> "already on branch"],
              branch |-> cur, checkout |-> FALSE]}
      [] cur = "other" ->
            {[result |-> CheckoutFailure(repo, "failed to checkout branch"),
              branch |-> cur, checkout |-> TRUE],
             [result |-> [RepoName |-> repo, Success |-> TRUE, Error |-> "nil",
                          Duration |-> 1, Message |-> ""],
              branch |-> "target", checkout |-> TRUE]}
\* checkoutTask on a repository found in state cur: the Result it builds,
\* the state it leaves the repository in, and whether client.Checkout was
\* called.  Client.Checkout returns nil only after worktree.Checkout of
\* branchName succeeded; on an error the branch is as it was.
CheckoutTaskOutcomes(repo, cur) ==
    CASE cur = "absent" ->
            {[result |-> CheckoutFailure(repo, "repository not cloned"),
              branch |-> cur, checkout |-> FALSE]}
      [] cur = "unreadable" ->
            {[result |-> CheckoutFailure(repo, "failed to get current branch"),
              branch |-> cur, checkout |-> FALSE]}
      [] cur = "target" ->
            {[result |-> [RepoName |-> repo, Success |-> TRUE, Error |-> "nil",
                          Duration |-> 0, Message |-> "already on branch"],
              branch |-> cur, checkout |-> FALSE]}
      [] cur = "other" ->
            {[result |-> CheckoutFailure(repo, "failed to checkout branch"),
              branch |-> cur, checkout |-> TRUE],
             [result |-> [RepoName |-> repo, Success |-> TRUE, Error |-> "nil",
                          Duration |-> 1, Message |-> ""],
              branch |-> "target", checkout |-> TRUE]}

\* the first run of `multi-git checkout branchName`; runCheckout passes
\* context.Background() and no progress callback
InitCheckout ==
    /\ \E n \in 0..MaxRepos, p \in 0..MaxParallel :
          /\ config = [Repositories |-> [k \in 1..n |-> k], ParallelWorkers |-> p]
          /\ \E b \in [1..n -> BranchStates] :
                env = [branch |-> b, file |-> p, run |-> 1]
    /\ \E cp \in 0..MaxCheckoutParallel : flags = [checkoutParallel |-> cp]
    /\ ctxDone = FALSE
    /\ onProgress = FALSE
    /\ pc = "idle"
    /\ i = 0
    /\ result = NoResult
    /\ results = <<>>
    /\ summary = NoSummary
    /\ numWorkers = 0
    /\ jobs = NoChan
    /\ resultsChan = NoChan
    /\ wg = 0
    /\ workers = <<>>
    /\ closer = "none"
    /\ panicked = FALSE
    /\ hasFailed = FALSE
    /\ exitCode = NotExited
    /\ hist = InitHist

\* runCheckout step 7: if workers > 1 { cfg.ParallelWorkers = workers;
\* ExecuteParallel } else ExecuteSequential
RunCheckout ==
    /\ pc = "idle"
    /\ IF CheckoutWorkers(flags, config) > 1
       THEN /\ config' = [config EXCEPT
                            !.ParallelWorkers = CheckoutWorkers(flags, config)]
            /\ pc' = "par_start"
            /\ hist' = [hist EXCEPT !.mode = "parallel"]
       ELSE /\ config' = config
            /\ pc' = "seq_loop"
            /\ hist' = [hist EXCEPT !.mode = "sequential"]
    /\ i' = 1
    /\ UNCHANGED <<cmdVars, ctxDone, onProgress, result, results, summary,
                   parVars>>

\* checkoutTask run by a worker
CheckoutTaskRun(w) ==
    /\ workers[w].pc = "task"
    /\ \E o \in CheckoutTaskOutcomes(workers[w].repo, env.branch[workers[w].repo]) :
          /\ workers' = [workers EXCEPT ![w].pc = "send", ![w].result = o.result]
          /\ env' = [env EXCEPT !.branch[workers[w].repo] = o.branch]
          /\ hist' = [hist EXCEPT
                        !.returned[workers[w].repo] = o.result,
                        !.running = @ \ {workers[w].repo},
                        !.effect = IF o.checkout THEN @ \cup {workers[w].repo}
                                   ELSE @]
    /\ UNCHANGED <<flags, hasFailed, exitCode, config, onProgress, pc, i,
                   result, results, summary, numWorkers, closer, ctxDone, jobs,
                   resultsChan, wg, panicked>>

\* checkoutTask run by ExecuteSequential
SeqCheckoutTaskRun ==
    /\ pc = "seq_task"
    /\ \E o \in CheckoutTaskOutcomes(config.Repositories[i],
                                     env.branch[config.Repositories[i]]) :
          /\ result' = o.result
          /\ env' = [env EXCEPT !.branch[config.Repositories[i]] = o.branch]
          /\ hist' = [hist EXCEPT
                        !.returned[config.Repositories[i]] = o.result,
                        !.running = @ \ {config.Repositories[i]},
                        !.effect = IF o.checkout
                                   THEN @ \cup {config.Repositories[i]}
                                   ELSE @]
    /\ pc' = "seq_append"
    /\ UNCHANGED <<flags, hasFailed, exitCode, config, ctxDone, onProgress, i,
                   results, summary, parVars>>

\* the same command is run once more after a run that exited with status
\* 0: a new process, the configuration read from the file again, the
\* repositories as the first run left them
CheckoutAgain ==
    /\ pc = "exited"
    /\ exitCode = 0
    /\ env.run = 1
    /\ env' = [env EXCEPT !.run = 2]
    /\ config' = [config EXCEPT !.ParallelWorkers = env.file]
    /\ pc' = "idle"
    /\ i' = 0
    /\ result' = NoResult
    /\ results' = <<>>
    /\ summary' = NoSummary
    /\ numWorkers' = 0
    /\ jobs' = NoChan
    /\ resultsChan' = NoChan
    /\ wg' = 0
    /\ workers' = <<>>
    /\ closer' = "none"
    /\ exitCode' = NotExited
    /\ hist' = InitHist
    /\ UNCHANGED <<flags, hasFailed, ctxDone, onProgress, panicked>>

NextCheckout ==
    \/ RunCheckout
    \/ SeqCheck
    \/ SeqCall
    \/ SeqCheckoutTaskRun
    \/ SeqAppend
    \/ SeqReturn
    \/ ParStart
    \/ ParSpawn
    \/ ParSend
    \/ ParCloseJobs
    \/ ParGoCloser
    \/ ParCollect
    \/ ParReturn
    \/ CloserWait
    \/ CloserClose
    \/ \E w \in 1..Len(workers) : WorkerDequeue(w)
    \/ \E w \in 1..Len(workers) : WorkerExit(w)
    \/ \E w \in 1..Len(workers) : WorkerSelect(w)
    \/ \E w \in 1..Len(workers) : WorkerCall(w)
    \/ \E w \in 1..Len(workers) : CheckoutTaskRun(w)
    \/ \E w \in 1..Len(workers) : WorkerSend(w)
    \/ CommandExit
    \/ CheckoutAgain

SpecCheckout == InitCheckout /\ [][NextCheckout]_vars

\* ------------------------------------------------ runs with a timed Task
\* Execute with a Task that takes a fixed time: flags.taskTime time units
\* pass between its call and its return.  Every other step of the executor
\* takes no time: the clock advances only when no goroutine can take a step.
TimedRepos == 1..MaxTimedRepos
TimedTaskResult(repo) ==
    [RepoName |-> repo, Success |-> TRUE, Error |-> "nil",
     Duration |-> 1, Message |-> ""]

InitTimed ==
    /\ \E n \in 0..MaxTimedRepos, p \in 0..MaxTimedParallel :
          config = [Repositories |-> [k \in 1..n |-> k], ParallelWorkers |-> p]
    /\ \E d \in 1..MaxTaskTime : flags = [taskTime |-> d]
    /\ ctxDone = FALSE
    /\ onProgress = FALSE
    /\ pc = "idle"
    /\ i = 0
    /\ result = NoResult
    /\ results = <<>>
    /\ summary = NoSummary
    /\ numWorkers = 0
    /\ jobs = NoChan
    /\ resultsChan = NoChan
    /\ wg = 0
    /\ workers = <<>>
    /\ closer = "none"
    /\ panicked = FALSE
    /\ hasFailed = FALSE
    /\ exitCode = NotExited
    /\ env = NoEnv
    /\ hist = [InitHist EXCEPT
                 !.invoked   = [r \in TimedRepos |-> 0],
                 !.returned  = [r \in TimedRepos |-> NoResult],
                 !.dequeued  = [r \in TimedRepos |-> 0],
                 !.progress  = [r \in TimedRepos |-> 0],
                 !.forwarded = [r \in TimedRepos |-> 0],
                 !.started   = [r \in TimedRepos |-> 0]]

\* result := task(repo) in a worker: the call, at the current time
TimedWorkerCall(w) ==
    /\ workers[w].pc = "call"
    /\ workers' = [workers EXCEPT ![w].pc = "task"]
    /\ hist' = [hist EXCEPT !.invoked[workers[w].repo] = @ + 1,
                            !.running = @ \cup {workers[w].repo},
                            !.started[workers[w].repo] = hist.clock]
    /\ UNCHANGED <<mainVars, ctxDone, jobs, resultsChan, wg, panicked>>

\* result := task(repo) in a worker: the return, taskTime later
TimedWorkerTaskReturn(w) ==
    /\ workers[w].pc = "task"
    /\ hist.clock = hist.started[workers[w].repo] + flags.taskTime
    /\ workers' = [workers EXCEPT
                     ![w].pc = "send",
                     ![w].result = TimedTaskResult(workers[w].repo)]
    /\ hist' = [hist EXCEPT
                  !.returned[workers[w].repo] = TimedTaskResult(workers[w].repo),
                  !.running = @ \ {workers[w].repo}]
    /\ UNCHANGED <<mainVars, ctxDone, jobs, resultsChan, wg, panicked>>

\* result := task(repo) in ExecuteSequential: the call, at the current time
TimedSeqCall ==
    /\ pc = "seq_call"
    /\ pc' = "seq_task"
    /\ hist' = [hist EXCEPT !.invoked[config.Repositories[i]] = @ + 1,
                            !.running = @ \cup {config.Repositories[i]},
                            !.started[config.Repositories[i]] = hist.clock]
    /\ UNCHANGED <<cmdVars, config, ctxDone, onProgress, i, result, results,
                   summary, parVars>>

\* result := task(repo) in ExecuteSequential: the return, taskTime later
TimedSeqTaskReturn ==
    /\ pc = "seq_task"
    /\ hist.clock = hist.started[config.Repositories[i]] + flags.taskTime
    /\ result' = TimedTaskResult(config.Repositories[i])
    /\ hist' = [hist EXCEPT
                  !.returned[config.Repositories[i]] =
                      TimedTaskResult(config.Repositories[i]),
                  !.running = @ \ {config.Repositories[i]}]
    /\ pc' = "seq_append"
    /\ UNCHANGED <<cmdVars, config, ctxDone, onProgress, i, results, summary,
                   parVars>>

\* the steps of the goroutines
TimedSteps ==
    \/ Execute
    \/ SeqCheck
    \/ TimedSeqCall
    \/ TimedSeqTaskReturn
    \/ SeqAppend
    \/ SeqReturn
    \/ ParStart
    \/ ParSpawn
    \/ ParSend
    \/ ParCloseJobs
    \/ ParGoCloser
    \/ ParCollect
    \/ ParReturn
    \/ CloserWait
    \/ CloserClose
    \/ \E w \in 1..Len(workers) : WorkerDequeue(w)
    \/ \E w \in 1..Len(workers) : WorkerExit(w)
    \/ \E w \in 1..Len(workers) : WorkerSelect(w)
    \/ \E w \in 1..Len(workers) : TimedWorkerCall(w)
    \/ \E w \in 1..Len(workers) : TimedWorkerTaskReturn(w)
    \/ \E w \in 1..Len(workers) : WorkerSend(w)

\* one time unit passes while the running Tasks work
Tick ==
    /\ hist.running # {}
    /\ ~ENABLED TimedSteps
    /\ hist' = [hist EXCEPT !.clock = @ + 1]
    /\ UNCHANGED <<cmdVars, config, ctxDone, onProgress, pc, i, result,
                   results, summary, parVars>>

NextTimed ==
    \/ TimedSteps
    \/ Tick

SpecTimed == InitTimed /\ [][NextTimed]_vars

\* ------------------------------------------------- mode selection alone
InitSelect ==
    /\ \E n \in 0..MaxRepos, p \in (0 - MaxNegative)..MaxSelect :
          config = [Repositories |-> [k \in 1..n |-> k], ParallelWorkers |-> p]
    /\ ctxDone \in BOOLEAN
    /\ onProgress \in BOOLEAN
    /\ pc = "idle"
    /\ i = 0
    /\ result = NoResult
    /\ results = <<>>
    /\ summary = NoSummary
    /\ numWorkers = 0
    /\ jobs = NoChan
    /\ resultsChan = NoChan
    /\ wg = 0
    /\ workers = <<>>
    /\ closer = "none"
    /\ panicked = FALSE
    /\ flags = NoFlags
    /\ hasFailed = FALSE
    /\ exitCode = NotExited
    /\ env = NoEnv
    /\ hist = InitHist

NextSelect == Execute

SpecSelect == InitSelect /\ [][NextSelect]_vars

\* ------------------------------------------- Summary construction alone
\* Results a Task or the executor can hand to NewSummary
ResultValues ==
    {[RepoName |-> 1, Success |-> s, Error |-> IF s THEN "nil" ELSE "failed",
      Duration |-> d, Message |-> m] :
        s \in BOOLEAN, d \in 0..MaxDuration, m \in {"", "already on branch"}}

ResultLists == UNION {[1..n -> ResultValues] : n \in 0..MaxResults}

InitSummary ==
    /\ results \in ResultLists
    /\ pc = "summarize"
    /\ config = [Repositories |-> <<>>, ParallelWorkers |-> 0]
    /\ ctxDone = FALSE
    /\ onProgress = FALSE
    /\ i = 0
    /\ result = NoResult
    /\ summary = NoSummary
    /\ numWorkers = 0
    /\ jobs = NoChan
    /\ resultsChan = NoChan
    /\ wg = 0
    /\ workers = <<>>
    /\ closer = "none"
    /\ panicked = FALSE
    /\ flags = NoFlags
    /\ hasFailed = FALSE
    /\ exitCode = NotExited
    /\ env = NoEnv
    /\ hist = InitHist

\* summary := NewSummary(results, ...)
BuildSummary ==
    /\ pc = "summarize"
    /\ summary' = NewSummary(results)
    /\ pc' = "done"
    /\ UNCHANGED <<cmdVars, config, ctxDone, onProgress, i, result, results,
                   parVars, hist>>

NextSummary ==
    \/ BuildSummary
    \/ CommandExit

SpecSummary == InitSummary /\ [][NextSummary]_vars

\* ================================================================ claims
N == RepositoryCount(config)
Registered == 1..N
\* number of Results of a sequence that carry the name of repository r
Occurs(rs, r) == Cardinality({k \in 1..Len(rs) : rs[k].RepoName = r})
Returned == pc = "done"

\* C1: with the context never cancelled, both modes return a Summary of
\* exactly N Results, the Task having been called exactly once for each
\* descriptor and each descriptor having exactly one Result.
C1_NoCancelExactlyN ==
    (Returned /\ ~ctxDone) =>
        /\ summary.TotalCount = N
        /\ Len(summary.Results) = N
        /\ \A r \in Registered :
              hist.invoked[r] = 1 /\ Occurs(summary.Results, r) = 1

C1_Witness ==
    /\ Returned /\ ~ctxDone /\ N >= 2
    /\ hist.mode = "parallel" /\ Len(workers) >= 2
    /\ summary.TotalCount = N

\* C2: ExecuteParallel returns exactly one Result for every registered
\* descriptor, whenever the context is cancelled; TotalCount = Count().
C2_ParallelCancelKeepsAll ==
    (Returned /\ hist.mode = "parallel") =>
        /\ summary.TotalCount = N
        /\ \A r \in Registered : Occurs(summary.Results, r) = 1

C2_Witness ==
    /\ Returned /\ hist.mode = "parallel" /\ ctxDone /\ N >= 2
    /\ \E r \in Registered : hist.invoked[r] = 0
    /\ \E r \in Registered : hist.invoked[r] = 1
    /\ summary.TotalCount = N

\* C3: ExecuteSequential, cancelled before the loop reaches repository k,
\* stops there: no Task call for k or later, fewer than N Results, and no
\* Result for any repository at index >= k.
C3_SequentialTruncates ==
    (hist.mode = "sequential" /\ hist.cancelK \in Registered) =>
        /\ \A r \in hist.cancelK..N :
              /\ hist.invoked[r] = 0
              /\ Occurs(results, r) = 0
        /\ Returned =>
              /\ Len(summary.Results) < N
              /\ Len(summary.Results) = hist.cancelK - 1
              /\ \A r \in hist.cancelK..N : Occurs(summary.Results, r) = 0

C3_Witness ==
    /\ Returned /\ hist.mode = "sequential"
    /\ hist.cancelK = 2 /\ N >= 2
    /\ Len(summary.Results) = 1


\* Results that have reached the sink, the collector or the Summary
Forwarded ==
    {resultsChan.buf[k] : k \in 1..Len(resultsChan.buf)}
      \cup {results[k] : k \in 1..Len(results)}
      \cup {summary.Results[k] : k \in 1..Len(summary.Results)}
\* Results a goroutine holds between the Task's return and the forwarding
Held ==
    {workers[w].result : w \in {v \in 1..Len(workers) : workers[v].pc = "send"}}
      \cup (IF pc = "seq_append" THEN {result} ELSE {})
\* number of Task calls in progress
InProgress == Cardinality({w \in 1..Len(workers) : workers[w].pc = "task"})

\* C4: a descriptor dequeued while the context is already cancelled never
\* has the Task called, and the Result forwarded for it carries its name,
\* success=false and the cancellation error.
C4_LateDequeueSynthesized ==
    \A r \in hist.lateDeq :
        /\ hist.invoked[r] = 0
        /\ \A x \in Forwarded :
              x.RepoName = r => (x.Success = FALSE /\ x.Error = Canceled)
        /\ hist.forwarded[r] = 1 =>
              \E x \in Forwarded : x.RepoName = r
        /\ Returned => Occurs(summary.Results, r) = 1

C4_Witness ==
    /\ Returned /\ hist.lateDeq # {}
    /\ \E r \in Registered : hist.invoked[r] = 1
    /\ \E r \in hist.lateDeq : Occurs(summary.Results, r) = 1

\* C5: every descriptor is received from jobs by one worker, once; the
\* Task is called at most once per descriptor and no two workers hold the
\* same descriptor.
C5_NoDoubleDequeue ==
    /\ \A r \in Repos :
          /\ hist.dequeued[r] <= 1
          /\ hist.invoked[r] <= 1
          /\ Cardinality({w \in 1..Len(workers) : workers[w].repo = r}) <= 1
    /\ (Returned /\ hist.mode = "parallel") =>
          \A r \in Registered : hist.dequeued[r] = 1

C5_Witness ==
    \E w1, w2 \in 1..Len(workers) :
        /\ w1 # w2
        /\ workers[w1].pc = "task" /\ workers[w2].pc = "task"
        /\ workers[w1].repo # workers[w2].repo

\* C6: ExecuteParallel starts exactly W = min(Parallelism(), Count())
\* workers and never has more than W Task calls in progress.
MinWorkers ==
    IF ParallelWorkers(config) < N THEN ParallelWorkers(config) ELSE N

C6_ExactlyWWorkers ==
    hist.mode = "parallel" =>
        /\ Len(workers) <= MinWorkers
        /\ InProgress <= MinWorkers
        /\ pc \in {"par_send", "par_close", "par_go_closer", "par_collect", "done"}
              => Len(workers) = MinWorkers

C6_Witness ==
    /\ hist.mode = "parallel" /\ pc = "par_collect"
    /\ MinWorkers >= 2 /\ Len(workers) = MinWorkers /\ InProgress = MinWorkers

\* C7: once the Task has been called for a descriptor, the Result that
\* reaches the Summary for it is the one the Task returned, also when the
\* context is cancelled while the Task runs; it is never a cancelled Result.
C7_InFlightResultKept ==
    \A r \in Repos :
        hist.invoked[r] > 0 =>
            /\ \A x \in Forwarded \cup Held :
                  x.RepoName = r => (x = hist.returned[r] /\ x.Error # Canceled)
            /\ Returned =>
                  /\ Occurs(summary.Results, r) = 1
                  /\ hist.returned[r] \in Forwarded

C7_Witness ==
    /\ Returned /\ hist.mode = "parallel" /\ hist.interrupted
    /\ \E r \in Registered :
          /\ hist.invoked[r] = 1
          /\ hist.returned[r] \in {summary.Results[k] : k \in 1..Len(summary.Results)}

\* C8: in ExecuteParallel with a non-nil onProgress, the callback runs
\* exactly once for every descriptor (N calls for N repositories, whatever
\* the cancellation timing), each after the descriptor's Result was sent.
C8_ProgressOncePerDescriptor ==
    (hist.mode = "parallel" /\ onProgress) =>
        /\ hist.earlyProg = {}
        /\ Returned => \A r \in Registered : hist.progress[r] = 1

\* C9: resultsChan is closed only after every worker has left its loop; no
\* Result is sent at or after the close; a worker leaves its loop only when
\* jobs is closed and empty.
C9_ClosedState ==
    /\ ~panicked
    /\ resultsChan.closed =>
          /\ Len(workers) = numWorkers
          /\ \A w \in 1..Len(workers) : workers[w].pc = "exited"

C9_ClosedStep ==
    /\ resultsChan.closed => hist'.forwarded = hist.forwarded
    /\ \A w \in 1..Len(workers) :
          (workers[w].pc # "exited" /\ workers'[w].pc = "exited")
             => (jobs.closed /\ Len(jobs.buf) = 0)

C9_SinkClosedAfterWorkers == [](C9_ClosedState) /\ [][C9_ClosedStep]_vars

C9_Witness ==
    /\ resultsChan.closed /\ Len(workers) >= 2
    /\ Len(resultsChan.buf) > 0
    /\ \A r \in Registered : hist.forwarded[r] = 1

\* C10: the results of ExecuteSequential are a prefix of the repository
\* list in registration order, the k-th being what the Task returned for
\* the k-th repository; the Task is called for repository i only after the
\* earlier calls returned, their Results were appended and onProgress ran.
C10_SequentialPrefixOrder ==
    hist.mode = "sequential" =>
        /\ Len(results) <= N
        /\ \A k \in 1..Len(results) :
              /\ results[k].RepoName = config.Repositories[k]
              /\ results[k] = hist.returned[config.Repositories[k]]
        /\ Returned => summary.Results = results
        /\ Cardinality(hist.running) <= 1
        /\ pc \in {"seq_call", "seq_task"} =>
              /\ Len(results) = i - 1
              /\ hist.running \subseteq {config.Repositories[i]}
              /\ \A k \in 1..(i - 1) :
                    /\ hist.invoked[config.Repositories[k]] = 1
                    /\ onProgress => hist.progress[config.Repositories[k]] = 1

C10_Witness ==
    /\ Returned /\ hist.mode = "sequential" /\ onProgress
    /\ N >= 2 /\ Len(summary.Results) = N
    /\ \A r \in Registered : hist.progress[r] = 1

\* C11: a failing Task never aborts the batch: with the context never
\* cancelled the Task is called for every descriptor, whatever the earlier
\* calls returned, and FailedCount is the number of calls that returned
\* Success = false.
FailedReturns == {r \in Registered : hist.returned[r].Success = FALSE}

C11_FailureNeverAborts ==
    (Returned /\ ~ctxDone) =>
        /\ \A r \in Registered :
              hist.invoked[r] = 1 /\ hist.returned[r] # NoResult
        /\ summary.FailedCount = Cardinality(FailedReturns)
        /\ summary.TotalCount = N

C11_Witness ==
    /\ Returned /\ ~ctxDone /\ N >= 2
    /\ hist.mode = "sequential"
    /\ hist.returned[1].Success = FALSE
    /\ hist.returned[2].Success = TRUE
    /\ hist.invoked[2] = 1
    /\ summary.FailedCount = 1 /\ summary.TotalCount = N

\* C14: with the context already cancelled when execution starts,
\* ExecuteSequential calls no Task and returns zero Results, while
\* ExecuteParallel calls no Task and returns N Results, one cancelled
\* (failed) Result per descriptor.
C14_CancelledAtStart ==
    hist.startDone =>
        /\ \A r \in Repos : hist.invoked[r] = 0
        /\ (Returned /\ hist.mode = "sequential") =>
              /\ summary.TotalCount = 0
              /\ summary.Results = <<>>
        /\ (Returned /\ hist.mode = "parallel") =>
              /\ summary.TotalCount = N
              /\ summary.FailedCount = N
              /\ \A r \in Registered : Occurs(summary.Results, r) = 1
              /\ \A k \in 1..Len(summary.Results) :
                    /\ summary.Results[k].Success = FALSE
                    /\ summary.Results[k].Error = Canceled

C14_Witness ==
    /\ Returned /\ hist.startDone /\ hist.mode = "parallel"
    /\ N >= 2 /\ summary.TotalCount = N /\ summary.FailedCount = N

\* C16: with no repository both modes return a Summary with all counts 0
\* and no Results; the Task and onProgress never run and ExecuteParallel
\* starts no worker.
C16_EmptyList ==
    N = 0 =>
        /\ \A r \in Repos : hist.invoked[r] = 0 /\ hist.progress[r] = 0
        /\ Len(workers) = 0 /\ wg = 0 /\ closer = "none"
        /\ ~panicked
        /\ pc \in {"idle", "seq_loop", "seq_return", "par_start", "done"}
        /\ Returned =>
              summary = [TotalCount |-> 0, SuccessCount |-> 0, FailedCount |-> 0,
                         SkippedCount |-> 0, Results |-> <<>>]

C16_Witness ==
    /\ N = 0 /\ Returned /\ hist.mode = "parallel" /\ onProgress
    /\ summary.TotalCount = 0

\* C12: exec with fail-fast in Bounded-Parallel mode: every descriptor
\* that had not been dispatched to a worker when a Task failed gets a
\* Result whose error is "skipped due to previous failure".
C12_UndispatchedGetSkippedError ==
    (flags.execFailFast /\ hist.mode = "parallel" /\ Returned) =>
        \A r \in hist.lateDeq :
            \E k \in 1..Len(summary.Results) :
                /\ summary.Results[k].RepoName = r
                /\ summary.Results[k].Error = SkippedDueToFailure

\* C13: exec with fail-fast in Bounded-Parallel mode: for a descriptor
\* dequeued after a failing Task set hasFailed and cancelled the context,
\* the repository check and shell command never run; the Summary still
\* holds exactly N Results and those descriptors' Results have
\* Success = false.
C13_LateDequeueNoRealWork ==
    (flags.execFailFast /\ hist.mode = "parallel") =>
        /\ \A r \in hist.lateDeq :
              /\ hasFailed /\ ctxDone
              /\ r \notin hist.ranOp
              /\ \A x \in Forwarded : x.RepoName = r => x.Success = FALSE
        /\ Returned =>
              /\ summary.TotalCount = N
              /\ \A r \in Registered : Occurs(summary.Results, r) = 1
              /\ \A r \in hist.lateDeq :
                    \E k \in 1..Len(summary.Results) :
                        /\ summary.Results[k].RepoName = r
                        /\ summary.Results[k].Success = FALSE

C13_Witness ==
    /\ flags.execFailFast /\ hist.mode = "parallel" /\ Returned
    /\ hist.lateDeq # {} /\ hist.ranOp # {}
    /\ summary.TotalCount = N /\ N >= 2

\* ----------------------------------------------------- Summary claims
\* the classification rule, stated on its own
Class(r) ==
    IF r.Success = FALSE THEN "Failed"
    ELSE IF r.Duration = 0 /\ r.Message # "" THEN "Skipped"
    ELSE "Success"
ClassCount(rs, c) == Cardinality({k \in 1..Len(rs) : Class(rs[k]) = c})
Built == pc \in {"done", "exited"}
SkipShaped(r) == r.Success = TRUE /\ r.Duration = 0 /\ r.Message # ""
Elements(sq) == {sq[k] : k \in 1..Len(sq)}

\* C17: NewSummary puts every Result in exactly one class (Failed if not
\* Success; else Skipped if Duration = 0 and Message non-empty; else
\* Success) and each count is the number of Results of its class.
C17_ClassificationCounts ==
    Built =>
        /\ summary.FailedCount = ClassCount(results, "Failed")
        /\ summary.SkippedCount = ClassCount(results, "Skipped")
        /\ summary.SuccessCount = ClassCount(results, "Success")
        /\ summary.TotalCount = Len(results)
        /\ summary.FailedCount + summary.SkippedCount + summary.SuccessCount
              = Len(results)

C17_Witness ==
    /\ Built /\ Len(results) = 3
    /\ summary.FailedCount = 1 /\ summary.SkippedCount = 1
    /\ summary.SuccessCount = 1
    /\ \E k \in 1..Len(results) :
          results[k].Success /\ results[k].Duration = 0 /\ results[k].Message = ""

\* C18: a Result with Success, Duration = 0 and a non-empty Message is
\* counted in SkippedCount, not in SuccessCount, is in SkippedResults() and
\* not in SuccessfulResults(); N such Results give total N, success 0,
\* failed 0, skipped N.
C18_SkipInvariant ==
    Built =>
        /\ \A k \in 1..Len(results) :
              SkipShaped(results[k]) =>
                 /\ results[k] \in Elements(SkippedResults(summary))
                 /\ results[k] \notin Elements(SuccessfulResults(summary))
        /\ Len(SkippedResults(summary)) = summary.SkippedCount
        /\ Len(SuccessfulResults(summary)) = summary.SuccessCount
        /\ summary.SkippedCount
              = Cardinality({k \in 1..Len(results) : SkipShaped(results[k])})
        /\ (\A k \in 1..Len(results) : SkipShaped(results[k])) =>
              /\ summary.TotalCount = Len(results)
              /\ summary.SuccessCount = 0
              /\ summary.FailedCount = 0
              /\ summary.SkippedCount = Len(results)

C18_Witness ==
    /\ Built /\ Len(results) = 3
    /\ \A k \in 1..Len(results) : SkipShaped(results[k])
    /\ summary.SkippedCount = 3 /\ summary.SuccessCount = 0

\* C20: after the execution phase the process exits non-zero iff
\* HasFailures(), and HasFailures() iff some Result has Success = false.
C20_ExitStatusIffFailure ==
    /\ Built =>
          (HasFailures(summary) <=>
              \E k \in 1..Len(results) : results[k].Success = FALSE)
    /\ pc = "exited" =>
          (exitCode # 0 <=>
              \E k \in 1..Len(summary.Results) :
                  summary.Results[k].Success = FALSE)

C20_Witness ==
    /\ pc = "exited" /\ exitCode = 1
    /\ Len(results) >= 2
    /\ \E k \in 1..Len(results) : results[k].Success = FALSE
    /\ \E k \in 1..Len(results) : SkipShaped(results[k])

\* C15: Execute chooses the mode from the normalized parallelism: a
\* configured value <= 0 becomes 3 (never below 1); Sequential exactly when
\* the normalized value is <= 1, Bounded-Parallel otherwise.
Normalized ==
    IF config.ParallelWorkers <= 0 THEN 3 ELSE config.ParallelWorkers

C15_ModeSelection ==
    /\ ParallelWorkers(config) = Normalized
    /\ ParallelWorkers(config) >= 1
    /\ pc # "idle" =>
          /\ hist.mode = (IF Normalized <= 1 THEN "sequential" ELSE "parallel")
          /\ pc = (IF Normalized <= 1 THEN "seq_loop" ELSE "par_start")

C15_Witness ==
    /\ pc = "seq_loop" /\ hist.mode = "sequential"
    /\ config.ParallelWorkers = 1 /\ N >= 2

\* ------------------------------------------- queue, sink and collector
\* number of receives from jobs so far
RECURSIVE DequeueEvents(_)
DequeueEvents(k) == IF k = 0 THEN 0 ELSE hist.dequeued[k] + DequeueEvents(k - 1)
\* the Results forwarded so far that are not yet lost to the Summary, in
\* the order the collector has or will have them
Stream == results \o resultsChan.buf
Forwarding(w) == workers[w].pc \in {"send", "send_cancelled"}
SinkExists == resultsChan.cap > 0

\* C28: jobs is FIFO: the j-th receive from jobs, whichever worker makes
\* it, yields the j-th registered descriptor; the descriptors already
\* received are a prefix of the list and the buffer holds the following ones
\* in order.
C28_State ==
    hist.mode = "parallel" =>
        /\ \A r \in Registered :
              hist.dequeued[r] > 0 <=> r <= DequeueEvents(N)
        /\ \A k \in 1..Len(jobs.buf) :
              jobs.buf[k] = config.Repositories[DequeueEvents(N) + k]

C28_Step ==
    \A w \in 1..Len(workers) :
        (workers[w].pc = "range" /\ workers'[w].pc = "select")
            => workers'[w].repo = config.Repositories[DequeueEvents(N) + 1]

C28_FifoDequeue == [](C28_State) /\ [][C28_Step]_vars

C28_Witness ==
    /\ hist.mode = "parallel" /\ N >= 2 /\ Len(workers) >= 2
    /\ DequeueEvents(N) = 2
    /\ workers[2].repo = 1 /\ workers[2].pc = "task"
    /\ hist.forwarded[2] = 1 /\ hist.forwarded[1] = 0

\* C29: in ExecuteParallel the Results reach the Summary in the order the
\* workers sent them to resultsChan: every send appends to the stream,
\* the collector moves Results from the channel to results without
\* reordering, dropping or duplicating, and the Summary holds that stream.
C29_State ==
    (Returned /\ hist.mode = "parallel") =>
        /\ summary.Results = Stream
        /\ Len(resultsChan.buf) = 0

C29_Step ==
    hist.mode = "parallel" =>
        \/ Stream' = Stream
        \/ \E w \in 1..Len(workers) :
              /\ Forwarding(w)
              /\ workers'[w].pc \notin {"send", "send_cancelled"}
              /\ Stream' = Append(Stream, workers[w].result)

C29_CompletionOrder == [](C29_State) /\ [][C29_Step]_vars

C29_Witness ==
    /\ Returned /\ hist.mode = "parallel" /\ N >= 2
    /\ summary.Results[1].RepoName = 2
    /\ summary.Results[2].RepoName = 1
    /\ hist.invoked[1] = 1 /\ hist.invoked[2] = 1

\* C30: in ExecuteParallel only the collecting goroutine appends to
\* results (one received Result at a time); a worker step changes, besides
\* the worker's own locals and the WaitGroup, only jobs (a receive) or
\* resultsChan (a send); the Summary is built from results only when
\* resultsChan is closed and empty.
C30_Step ==
    (hist.mode = "parallel" /\ SinkExists) =>
        /\ results' # results =>
              /\ pc = "par_collect" /\ pc' = "par_collect"
              /\ workers' = workers
              /\ CanRecv(resultsChan)
              /\ results' = Append(results, Head(resultsChan.buf))
        /\ workers' # workers =>
              /\ results' = results /\ summary' = summary
              /\ config' = config /\ numWorkers' = numWorkers
              /\ \/ jobs' = jobs
                 \/ (CanRecv(jobs) /\ jobs' = [jobs EXCEPT !.buf = Tail(@)])
              /\ \/ resultsChan' = resultsChan
                 \/ \E w \in 1..Len(workers) :
                       /\ Forwarding(w)
                       /\ resultsChan' = [resultsChan EXCEPT
                                            !.buf = Append(@, workers[w].result)]
        /\ summary' # summary =>
              /\ pc = "par_collect"
              /\ resultsChan.closed /\ Len(resultsChan.buf) = 0
              /\ \A w \in 1..Len(workers) : workers[w].pc = "exited"
              /\ summary' = NewSummary(results)

C30_SingleCollector == [][C30_Step]_vars

C30_Witness ==
    /\ Returned /\ hist.mode = "parallel" /\ N >= 2 /\ Len(workers) >= 2
    /\ resultsChan.closed /\ Len(resultsChan.buf) = 0
    /\ Len(results) = N /\ summary.Results = results
    /\ \E r \in Registered : hist.forwarded[r] = 1 /\ hist.invoked[r] = 0

\* ------------------------------------------------ exec: flags and dry-run
\* min(n, Count())
MinOf(a, b) == IF a < b THEN a ELSE b
Spawned == pc \in {"par_send", "par_close", "par_go_closer", "par_collect",
                   "done", "exited"}
ExecResultsOf(r) == {x \in Forwarded \cup Held : x.RepoName = r}

\* C21: exec (as tag and push) with --parallel n > 0 runs min(n, Count())
\* workers and never more than n Tasks at once, whatever parallel_workers
\* the configuration holds.
C21_ParallelFlagIsWorkerCount ==
    (flags.execParallel > 0 /\ hist.mode = "parallel") =>
        /\ InProgress <= flags.execParallel
        /\ Len(workers) <= flags.execParallel
        /\ Spawned => Len(workers) = MinOf(flags.execParallel, N)

\* C22: exec with --parallel 0 runs sequentially, one repository at a time
\* in configuration order, whatever parallel_workers is configured.
C22_ParallelZeroIsSequential ==
    flags.execParallel = 0 =>
        /\ InProgress = 0
        /\ Cardinality(hist.running) <= 1
        /\ \A k \in 1..Len(results) :
              results[k].RepoName = config.Repositories[k]

\* C25 as stated: with --dry-run shell.Execute is never called, and the
\* Task of every repository whose directory exists returns success with
\* the "would execute" message.
C25_DryRunAllWouldExecute ==
    flags.execDryRun =>
        /\ hist.effect = {}
        /\ \A r \in hist.present :
              hist.returned[r] # NoResult =>
                  hist.returned[r] = ExecWouldExecute(r)

\* C25 (amended): with --dry-run shell.Execute is never called in any run;
\* the Task of a repository whose directory exists returns success with
\* the "would execute" message, unless --fail-fast is set and the Task was
\* called after an earlier failure, when it returns the "skipped due to
\* previous failure" Result without looking at the directory.
C25_DryRunNeverExecutes ==
    flags.execDryRun =>
        /\ hist.effect = {}
        /\ \A r \in hist.present :
              hist.returned[r] # NoResult =>
                  \/ hist.returned[r] = ExecWouldExecute(r)
                  \/ /\ flags.execFailFast /\ hasFailed
                     /\ hist.returned[r] = ExecSkippedResult(r)
        /\ \A r \in Repos : \A x \in ExecResultsOf(r) :
              x.Message # "executed successfully" /\ x.Error # "command failed"

C25_Witness ==
    /\ flags.execDryRun /\ pc = "exited" /\ N >= 2
    /\ hist.present = Registered
    /\ \A r \in Registered : hist.returned[r] = ExecWouldExecute(r)
    /\ summary.SuccessCount = N /\ exitCode = 0

\* ------------------------------------------------------- push: the gates
TaskInvoked == \E r \in Repos : hist.invoked[r] > 0
Gated == ~flags.pushYes /\ ~flags.pushDryRun

\* C23 as stated: a push Task is invoked only with --yes, with --dry-run,
\* or when the answer read from the prompt is "y" or "yes"; on any other
\* answer or a read error the process exits with status 0 and no Task has
\* been invoked.
AnsweredExactly ==
    /\ hist.answer.read /\ ~hist.answer.eof
    /\ hist.answer.text \in {<<"y">>, <<"y", "e", "s">>}

C23_GateExactAnswer ==
    /\ TaskInvoked => (flags.pushYes \/ flags.pushDryRun \/ AnsweredExactly)
    /\ (Gated /\ hist.answer.read /\ ~AnsweredExactly) =>
          (pc = "exited" /\ exitCode = 0 /\ ~TaskInvoked)

\* C23 (amended): a push Task is invoked only with --yes, with --dry-run,
\* or when a complete line was read whose text, trimmed of white space and
\* lower-cased, is "y" or "yes"; on any other answer or a read error the
\* process exits with status 0 and no Task has been invoked.
Answered ==
    /\ hist.answer.read /\ ~hist.answer.eof
    /\ TrimSpace(ToLower(hist.answer.text)) \in {<<"y">>, <<"y", "e", "s">>}

C23_ConfirmationGate ==
    /\ TaskInvoked => (flags.pushYes \/ flags.pushDryRun \/ Answered)
    /\ (pc # "idle" /\ Gated) => hist.answer.read
    /\ ~Gated => ~hist.answer.read
    /\ (Gated /\ hist.answer.read /\ ~Answered) =>
          /\ pc = "exited" /\ exitCode = 0
          /\ ~TaskInvoked /\ hist.mode = "none" /\ hist.effect = {}

C23_Witness ==
    /\ Gated /\ hist.answer.read /\ ~hist.answer.eof
    /\ hist.answer.text = <<" ", "Y", "E", "S", "\r">>
    /\ pc = "exited" /\ N >= 2
    /\ \A r \in Registered : hist.invoked[r] = 1
    /\ hist.effect # {}

C26_SkipExistingFalseReclones ==
    \A r \in hist.present :
        hist.returned[r] # NoResult =>
            IF flags.cloneSkipExisting
            THEN /\ IsSkipped(hist.returned[r])
                 /\ r \notin hist.effect
            ELSE /\ r \in hist.effect
                 /\ hist.returned[r].Success
                 /\ ~IsSkipped(hist.returned[r])

\* ------------------------------------------------------------ wall time
\* ceil(a / b)
Ceil(a, b) == (a + b - 1) \div b

\* C27: with W workers and N Tasks of the same duration d, ExecuteParallel
\* returns after ceil(N/W) * d: the Tasks run in ceil(N/W) rounds of at
\* most W at a time, less than the N * d of one Task after the other.
C27_WallTimeRounds ==
    (Returned /\ hist.mode = "parallel" /\ N > 0) =>
        /\ hist.clock = Ceil(N, MinWorkers) * flags.taskTime
        /\ (MinWorkers >= 2) => hist.clock < N * flags.taskTime
        /\ \A r \in Registered :
              \E k \in 0..(Ceil(N, MinWorkers) - 1) :
                  hist.started[r] = k * flags.taskTime
        /\ \A k \in 0..(Ceil(N, MinWorkers) - 1) :
              Cardinality({r \in Registered :
                              hist.started[r] = k * flags.taskTime})
                 <= MinWorkers

C27_Witness ==
    /\ Returned /\ hist.mode = "parallel"
    /\ N = 3 /\ MinWorkers = 2 /\ flags.taskTime = 2
    /\ hist.clock = 4
    /\ Cardinality({r \in Registered : hist.started[r] = 0}) = 2

\* --------------------------------------------- Summaries of the executor
\* descriptors whose Task was suppressed by the cancellation
Suppressed ==
    {r \in Registered : hist.dequeued[r] > 0 /\ hist.invoked[r] = 0
                        /\ hist.forwarded[r] > 0}
\* what ExecuteSequential returns for the Task the run has shown
Expected == [k \in 1..N |-> hist.returned[config.Repositories[k]]]
\* number of occurrences of x in a sequence
Count(sq, x) == Cardinality({k \in 1..Len(sq) : sq[k] = x})
SameMultiset(a, b) ==
    /\ Len(a) = Len(b)
    /\ \A k \in 1..Len(a) : Count(a, a[k]) = Count(b, a[k])

\* C34: when ExecuteParallel has returned its Summary every worker has
\* exited: no Task call and no onProgress call is in progress, and (a
\* worker that has exited takes no further step) none starts afterwards.
C34_ReturnAfterWorkers ==
    (Returned /\ hist.mode = "parallel" /\ N > 0) =>
        /\ Len(workers) = numWorkers /\ Len(workers) > 0
        /\ \A w \in 1..Len(workers) : workers[w].pc = "exited"
        /\ hist.running = {}
        /\ wg = 0 /\ closer = "done"
        /\ onProgress =>
              \A r \in Registered : hist.progress[r] = hist.invoked[r]

C34_Witness ==
    /\ Returned /\ hist.mode = "parallel" /\ onProgress
    /\ N >= 2 /\ Len(workers) >= 2
    /\ \A r \in Registered : hist.progress[r] = 1
    /\ \A w \in 1..Len(workers) : workers[w].pc = "exited"

\* C36: in ExecuteParallel every synthesized cancellation Result counts
\* as Failed: FailedCount is at least the number of descriptors whose Task
\* was suppressed by cancellation, and with one or more HasFailures() holds.
C36_CancelledCountsAsFailed ==
    /\ \A x \in Forwarded : x.Error = Canceled => Class(x) = "Failed"
    /\ (Returned /\ hist.mode = "parallel") =>
          /\ summary.FailedCount >= Cardinality(Suppressed)
          /\ Suppressed # {} => HasFailures(summary)
          /\ \A r \in Suppressed :
                \E k \in 1..Len(summary.Results) :
                    /\ summary.Results[k].RepoName = r
                    /\ ~IsSkipped(summary.Results[k])
                    /\ ~summary.Results[k].Success

C36_Witness ==
    /\ Returned /\ hist.mode = "parallel" /\ N >= 2
    /\ Cardinality(Suppressed) = 1
    /\ summary.FailedCount = 1 /\ summary.SkippedCount = 1
    /\ HasFailures(summary)

\* C37: every Summary either mode returns has TotalCount = Len(Results)
\* = SuccessCount + FailedCount + SkippedCount, all counts >= 0 and
\* TotalCount <= Count().
C37_SummaryCountsConsistent ==
    Returned =>
        /\ summary.TotalCount = Len(summary.Results)
        /\ summary.TotalCount =
              summary.SuccessCount + summary.FailedCount + summary.SkippedCount
        /\ summary.SuccessCount >= 0 /\ summary.FailedCount >= 0
        /\ summary.SkippedCount >= 0
        /\ summary.TotalCount <= N

C37_Witness ==
    /\ Returned /\ hist.mode = "parallel" /\ ctxDone /\ N >= 2
    /\ summary.SuccessCount = 1 /\ summary.FailedCount = 1
    /\ summary.SkippedCount = 0 /\ summary.TotalCount = N

\* C38: with no cancellation and a Task whose Result depends only on the
\* descriptor, both modes return the same multiset of Results - the list
\* ExecuteSequential returns, in some order - and the counts NewSummary
\* gives for that list, whatever the order.
C38_ModesAgree ==
    (Returned /\ ~ctxDone) =>
        /\ SameMultiset(summary.Results, Expected)
        /\ summary.TotalCount = NewSummary(Expected).TotalCount
        /\ summary.SuccessCount = NewSummary(Expected).SuccessCount
        /\ summary.FailedCount = NewSummary(Expected).FailedCount
        /\ summary.SkippedCount = NewSummary(Expected).SkippedCount
        /\ hist.mode = "sequential" => summary.Results = Expected

C38_Witness ==
    /\ Returned /\ ~ctxDone /\ hist.mode = "parallel" /\ N >= 2
    /\ summary.Results # Expected
    /\ IsSkipped(hist.returned[1]) /\ ~hist.returned[2].Success
    /\ summary.SkippedCount = 1 /\ summary.FailedCount = 1

\* --------------------------------------------- exec --fail-fast, sequential
\* positions of the failed Results of the Summary
FailedAt == {k \in 1..Len(summary.Results) : ~summary.Results[k].Success}

\* C32: exec --fail-fast in ExecuteSequential: after the first Task that
\* fails no further Task is invoked; the Summary has exactly k Results, k
\* the input position of the first failure, exactly one of them failed,
\* and the repositories after position k have no Result.
C32_FailFastSequentialStops ==
    (Returned /\ flags.execFailFast /\ hist.mode = "sequential") =>
        /\ \A k \in 1..Len(summary.Results) :
              summary.Results[k].RepoName = config.Repositories[k]
        /\ FailedAt = {} => Len(summary.Results) = N
        /\ FailedAt # {} =>
              /\ FailedAt = {Len(summary.Results)}
              /\ summary.FailedCount = 1
              /\ hist.cancelK = Len(summary.Results) + 1
              /\ \A k \in (Len(summary.Results) + 1)..N :
                    /\ hist.invoked[config.Repositories[k]] = 0
                    /\ config.Repositories[k] \notin hist.effect

C32_Witness ==
    /\ Returned /\ flags.execFailFast /\ hist.mode = "sequential"
    /\ N = MaxRepos
    /\ Len(summary.Results) = 1 /\ FailedAt = {1}
    /\ hist.invoked[config.Repositories[2]] = 0

BlockedSend ==
    \/ pc = "par_send" /\ ~CanSend(jobs)
    \/ \E w \in 1..Len(workers) :
          /\ workers[w].pc \in {"send", "send_cancelled"}
          /\ ~CanSend(resultsChan)
ParallelDone ==
    /\ Returned
    /\ resultsChan.closed /\ resultsChan.buf = <<>>
    /\ jobs.closed /\ jobs.buf = <<>>
    /\ Len(workers) = numWorkers
    /\ \A w \in 1..Len(workers) : workers[w].pc = "exited"
    /\ closer = "done"

\* C33: ExecuteParallel terminates without deadlock: whatever the
\* interleaving and the moment of the cancellation, no send on jobs or on
\* resultsChan ever has to wait, and a run that has entered ExecuteParallel
\* with a non-empty list leads to the state where every worker has exited,
\* resultsChan is closed and drained, and the Summary is returned.
C33_ParallelTerminates ==
    /\ [](~BlockedSend /\ ~panicked)
    /\ (hist.mode = "parallel" /\ N > 0) ~> ParallelDone
    /\ (hist.mode = "parallel") ~> Returned

C33_Witness ==
    /\ ParallelDone /\ ctxDone /\ ~hist.startDone
    /\ N >= 2 /\ Len(workers) >= 2
    /\ hist.lateDeq # {} /\ onProgress

\* --------------------------------------------- Task calls after the signal
\* Task calls a goroutine is committed to: it has passed its cancellation
\* check and has not yet called the Task
Pending ==
    IF hist.mode = "sequential"
    THEN (IF pc = "seq_call" THEN 1 ELSE 0)
    ELSE Cardinality({w \in 1..Len(workers) : workers[w].pc = "call"})
Calls(h) == [r \in Registered |-> h.invoked[r]]
TaskBegins == Calls(hist') # Calls(hist)
Limit == IF hist.mode = "sequential" THEN 1 ELSE numWorkers

\* C35: once the signal is set, no goroutine passes a cancellation check
\* any more, so the only Task calls that still begin are those of the
\* goroutines that had passed their check before: each begins one and is
\* then committed to none, at most W of them in ExecuteParallel and at most
\* one in ExecuteSequential.
C35_Step ==
    ctxDone =>
        /\ Pending' <= Pending
        /\ TaskBegins => Pending' = Pending - 1
        /\ \A w \in 1..Len(workers) :
              workers'[w].pc = "call" => workers[w].pc = "call"
        /\ pc' = "seq_call" => pc = "seq_call"

C35_LateCallsBounded ==
    /\ [](Pending <= Limit /\ (hist.startDone => Pending = 0))
    /\ [][C35_Step]_vars

C35_Witness ==
    /\ ctxDone /\ ~hist.interrupted /\ hist.mode = "parallel"
    /\ Cardinality(hist.running) = 2 /\ numWorkers = 2
    /\ Pending = 0

C35_WitnessSequential ==
    /\ ctxDone /\ ~hist.interrupted /\ hist.mode = "sequential"
    /\ pc = "seq_task" /\ i = 2

\* --------------------------------------------- checkout: skip and rerun
\* the checkout Task of repository r has returned in this run
TaskDone(r) == hist.invoked[r] > 0 /\ r \notin hist.running
\* repository r was on branchName when its Task read the current branch
\* (only client.Checkout changes the branch)
WasOnTarget(r) == env.branch[r] = "target" /\ r \notin hist.effect
AlreadyOnBranch(x) ==
    x.Success /\ x.Duration = 0 /\ x.Message = "already on branch"

\* C31: the checkout Task returns the skip Result (success, duration 0,
\* "already on branch") exactly when the repository was already on the
\* target branch, and then client.Checkout is not called; a second run of
\* the command after a run without failure returns a Summary in which all
\* N repositories are skipped and none counts as success.
C31_SkipIffOnBranch ==
    /\ \A r \in Registered :
          TaskDone(r) =>
             /\ AlreadyOnBranch(hist.returned[r]) <=> WasOnTarget(r)
             /\ IsSkipped(hist.returned[r]) <=> WasOnTarget(r)
             /\ (hist.returned[r].Success /\ ~WasOnTarget(r)) =>
                   (r \in hist.effect /\ env.branch[r] = "target")
    /\ (env.run = 2 /\ Returned) =>
          /\ summary.TotalCount = N
          /\ summary.SkippedCount = N
          /\ summary.SuccessCount = 0
          /\ summary.FailedCount = 0
          /\ hist.effect = {}
          /\ \A k \in 1..Len(summary.Results) :
                AlreadyOnBranch(summary.Results[k])

C31_Witness ==
    /\ env.run = 2 /\ pc = "exited" /\ exitCode = 0
    /\ N = MaxRepos /\ hist.mode = "parallel"
    /\ summary.SkippedCount = N /\ summary.SuccessCount = 0

C31_WitnessFirstRun ==
    /\ env.run = 1 /\ pc = "exited" /\ exitCode = 0 /\ N = MaxRepos
    /\ summary.SkippedCount = 1 /\ summary.SuccessCount = 1
    /\ Cardinality(hist.effect) = 1

====
